---- MODULE Spec2Model ----
(***************************************************************************)
(* MV-Scan "inconsistent state" detector: the state dependency graph       *)
(* (utils/sdg.py), the alias registry (utils/alias.py) and the detection   *)
(* pipeline of InconsistentState._detect (inconsistent_state.py).          *)
(*                                                                         *)
(* A compilation unit is what the detector receives from the front end:    *)
(* functions, their CFG nodes, the variables each node reads and writes    *)
(* and its IR operations.  One run of _detect is the pipeline              *)
(*   build -> prepare -> prune -> pairs -> emit -> done.                   *)
(***************************************************************************)
EXTENDS Integers, Sequences, FiniteSets, TLC

(***************************************************************************)
(* Bounds of the checked family of compilation units.                      *)
(***************************************************************************)
MaxFns == 2
MaxDepth == 4
MaxSteps == 12
MaxCalls == 3
MaxRuns == 2
MaxText == 3

(***************************************************************************)
(* Front-end objects.  A reference is a 3-tuple whose first component is   *)
(* its class: a StateVariable (name, declaring contract), an index         *)
(* expression with variable_left / variable_right, a local variable, or a  *)
(* constant.                                                               *)
(***************************************************************************)
SV(name, contract) == <<"SV", name, contract>>
IDX(base, key) == <<"IDX", base, key>>
LOC(name) == <<"LOC", name, "">>
CONST(text) == <<"CONST", text, "">>

\* isinstance(v, StateVariable)
IsStateVariable(v) == v[1] = "SV"
\* is_index_var: any object with variable_left and variable_right
is_index_var(v) == v[1] = "IDX"
\* str(v) of a front-end reference
Str(v) == IF v[1] = "IDX" THEN v[2][2] \o "[" \o v[3] \o "]" ELSE v[2]

\* IR operations: Assignment, another operation with an lvalue (Binary),
\* and the two call classes.  callee = "" is ir.function = None,
\* dest = "" is a missing destination.
Asg(lv, rv) == [op |-> "Assignment", lv |-> lv, rv |-> rv, callee |-> "", fname |-> "", args |-> <<>>, dest |-> ""]
Bin(lv) == [op |-> "Binary", lv |-> lv, rv |-> CONST(""), callee |-> "", fname |-> "", args |-> <<>>, dest |-> ""]
Call(kind, callee, fname, args, dest) ==
  [op |-> kind, lv |-> CONST(""), rv |-> CONST(""), callee |-> callee, fname |-> fname, args |-> args, dest |-> dest]

IsAssignment(ir) == ir.op = "Assignment"
IsOperationWithLValue(ir) == ir.op \in {"Assignment", "Binary"}
IsCall(ir) == ir.op \in {"HighLevelCall", "InternalCall"}

Node(type, reads, writes, irs, sons, expr) ==
  [type |-> type, variables_read |-> reads, variables_written |-> writes, irs |-> irs, sons |-> sons, expression |-> expr]
Fn(name, full_name, visibility, is_constructor, modifiers, view, contract, params, nodes) ==
  [name |-> name, full_name |-> full_name, visibility |-> visibility, is_constructor |-> is_constructor,
   modifiers |-> modifiers, view |-> view, contract_declarer |-> contract, parameters |-> params, nodes |-> nodes]

(***************************************************************************)
(* Text functions.  Each table lists, for every text that occurs in the    *)
(* library below, the value the detector's own function returns for it.    *)
(***************************************************************************)
\* norm_txt: drops "this.", unwraps address(..), removes blanks, lower-cases
norm_txt(s) ==
  CASE s = "balance" -> "balance" [] s = "msg.value" -> "msg.value" [] s = "paid" -> "paid" [] s = "true" -> "true" [] s = "a" -> "a"
    [] s = "x" -> "x" [] s = "b" -> "b" [] s = "y" -> "y" [] s = "initialized" -> "initialized" [] s = "0" -> "0" [] s = "m" -> "m"
    [] s = "m[msg.sender]" -> "m[msg.sender]" [] s = "n" -> "n" [] s = "n[id]" -> "n[id]" [] s = "m[to]" -> "m[to]"
    [] s = "m[address(msg.sender)]" -> "m[msg.sender]" [] s = "balances" -> "balances" [] s = "balances[msg.sender]" -> "balances[msg.sender]"
    [] s = "t1" -> "t1" [] s = "t2" -> "t2" [] s = "t3" -> "t3" [] s = "t4" -> "t4" [] s = "t5" -> "t5" [] s = "t6" -> "t6"
    [] s = "msg.sender" -> "msg.sender" [] s = "id" -> "id" [] s = "to" -> "to" [] s = "address(msg.sender)" -> "msg.sender" [] s = "m[id]" -> "m[id]"
    [] s = "n[msg.sender]" -> "n[msg.sender]" [] s = "n[to]" -> "n[to]" [] s = "balances[id]" -> "balances[id]"
    [] s = "balances[to]" -> "balances[to]" [] s = "{a, b}" -> "{a,b}" [] s = "{m, n}" -> "{m,n}" [] s = "{a, paid}" -> "{a,paid}"

InlineAdminGuardExpr(e) ==
  CASE e = "balance = msg.value" -> FALSE [] e = "balance += msg.value" -> FALSE [] e = "require(bool)(balance > 0)" -> FALSE
    [] e = "paid = true" -> FALSE [] e = "a = x" -> FALSE [] e = "b = y" -> FALSE [] e = "a += x" -> FALSE [] e = "b += y" -> FALSE
    [] e = "a > 0 && b > 0" -> FALSE [] e = "require(bool)(! initialized)" -> FALSE [] e = "a = x; initialized = true" -> FALSE
    [] e = "balance = 0" -> FALSE [] e = "setup()" -> FALSE [] e = "balance > 0" -> FALSE [] e = "balance = x" -> FALSE [] e = "B()" -> FALSE
    [] e = "A()" -> FALSE [] e = "balance = 0; a = 0" -> FALSE [] e = "m[msg.sender] = x" -> FALSE [] e = "m[msg.sender] = x; n[id] = y" -> FALSE
    [] e = "m[to] > 0" -> FALSE [] e = "m[address(msg.sender)] > 0" -> FALSE [] e = "m[to] > 0 && n[id] > 0" -> FALSE [] e = "paid = balance" -> FALSE
    [] e = "a > 0" -> FALSE [] e = "again()" -> FALSE [] e = "withdraw()" -> FALSE [] e = "paid = a" -> FALSE [] e = "b > 0" -> FALSE
    [] e = "balances[msg.sender] = x" -> FALSE [] e = "c.balanceOf(msg.sender) > 0" -> FALSE [] e = "balanceOf(msg.sender) > 0" -> FALSE
    [] e = "paid && a > 0" -> FALSE [] e = "balance = balance" -> FALSE [] e = "m[msg.sender] = m[msg.sender]" -> FALSE

LatchToksOfExpr(e) ==
  CASE e = "balance = msg.value" -> {} [] e = "balance += msg.value" -> {} [] e = "require(bool)(balance > 0)" -> {} [] e = "paid = true" -> {}
    [] e = "a = x" -> {} [] e = "b = y" -> {} [] e = "a += x" -> {} [] e = "b += y" -> {} [] e = "a > 0 && b > 0" -> {}
    [] e = "require(bool)(! initialized)" -> {} [] e = "a = x; initialized = true" -> {} [] e = "balance = 0" -> {} [] e = "setup()" -> {}
    [] e = "balance > 0" -> {} [] e = "balance = x" -> {} [] e = "B()" -> {} [] e = "A()" -> {} [] e = "balance = 0; a = 0" -> {}
    [] e = "m[msg.sender] = x" -> {} [] e = "m[msg.sender] = x; n[id] = y" -> {} [] e = "m[to] > 0" -> {} [] e = "m[address(msg.sender)] > 0" -> {}
    [] e = "m[to] > 0 && n[id] > 0" -> {} [] e = "paid = balance" -> {} [] e = "a > 0" -> {} [] e = "again()" -> {} [] e = "withdraw()" -> {}
    [] e = "paid = a" -> {} [] e = "b > 0" -> {} [] e = "balances[msg.sender] = x" -> {} [] e = "c.balanceOf(msg.sender) > 0" -> {}
    [] e = "balanceOf(msg.sender) > 0" -> {} [] e = "paid && a > 0" -> {} [] e = "balance = balance" -> {}
    [] e = "m[msg.sender] = m[msg.sender]" -> {}

PostGuardLatchesOfExpr(e) ==
  CASE e = "balance = msg.value" -> {} [] e = "balance += msg.value" -> {} [] e = "require(bool)(balance > 0)" -> {} [] e = "paid = true" -> {}
    [] e = "a = x" -> {} [] e = "b = y" -> {} [] e = "a += x" -> {} [] e = "b += y" -> {} [] e = "a > 0 && b > 0" -> {}
    [] e = "require(bool)(! initialized)" -> {} [] e = "a = x; initialized = true" -> {"initialized"} [] e = "balance = 0" -> {}
    [] e = "setup()" -> {} [] e = "balance > 0" -> {} [] e = "balance = x" -> {} [] e = "B()" -> {} [] e = "A()" -> {}
    [] e = "balance = 0; a = 0" -> {} [] e = "m[msg.sender] = x" -> {} [] e = "m[msg.sender] = x; n[id] = y" -> {} [] e = "m[to] > 0" -> {}
    [] e = "m[address(msg.sender)] > 0" -> {} [] e = "m[to] > 0 && n[id] > 0" -> {} [] e = "paid = balance" -> {} [] e = "a > 0" -> {}
    [] e = "again()" -> {} [] e = "withdraw()" -> {} [] e = "paid = a" -> {} [] e = "b > 0" -> {} [] e = "balances[msg.sender] = x" -> {}
    [] e = "c.balanceOf(msg.sender) > 0" -> {} [] e = "balanceOf(msg.sender) > 0" -> {} [] e = "paid && a > 0" -> {} [] e = "balance = balance" -> {}
    [] e = "m[msg.sender] = m[msg.sender]" -> {}

Lower(s) ==
  CASE s = "deposit" -> "deposit" [] s = "withdraw" -> "withdraw" [] s = "setAB" -> "setab" [] s = "setB" -> "setb" [] s = "check" -> "check"
    [] s = "initialize" -> "initialize" [] s = "setup" -> "setup" [] s = "join" -> "join" [] s = "helper" -> "helper" [] s = "A" -> "a"
    [] s = "B" -> "b" [] s = "constructor" -> "constructor" [] s = "adminSet" -> "adminset" [] s = "put" -> "put" [] s = "get" -> "get"
    [] s = "loop" -> "loop" [] s = "again" -> "again" [] s = "zap" -> "zap" [] s = "fork" -> "fork" [] s = "credit" -> "credit"
    [] s = "probe" -> "probe" [] s = "seed" -> "seed" [] s = "recheck" -> "recheck" [] s = "copy" -> "copy" [] s = "copySlot" -> "copyslot"
    [] s = "initializer" -> "initializer" [] s = "onlyOwner" -> "onlyowner" [] s = "c" -> "c" [] s = "self" -> "self" [] s = "unknown" -> "unknown"
    [] s = "token" -> "token" [] s = "Token" -> "token" [] s = "C" -> "c" [] s = "balanceof" -> "balanceof"
    [] s = "balanceof(address)" -> "balanceof(address)" [] s = "burn" -> "burn" [] s = "lastbalance" -> "lastbalance" [] s = "mint" -> "mint"
    [] s = "sync" -> "sync" [] s = "totalsupply" -> "totalsupply" [] s = "transfer" -> "transfer" [] s = "transferfrom" -> "transferfrom"
    [] s = "balanceOf" -> "balanceof" [] s = "setab" -> "setab" [] s = "setb" -> "setb" [] s = "a" -> "a" [] s = "b" -> "b"
    [] s = "adminset" -> "adminset" [] s = "copyslot" -> "copyslot" [] s = "onlyowner" -> "onlyowner"

StartsWithInitialize(s) ==
  CASE s = "deposit" -> FALSE [] s = "withdraw" -> FALSE [] s = "setAB" -> FALSE [] s = "setB" -> FALSE [] s = "check" -> FALSE
    [] s = "initialize" -> TRUE [] s = "setup" -> FALSE [] s = "join" -> FALSE [] s = "helper" -> FALSE [] s = "A" -> FALSE [] s = "B" -> FALSE
    [] s = "constructor" -> FALSE [] s = "adminSet" -> FALSE [] s = "put" -> FALSE [] s = "get" -> FALSE [] s = "loop" -> FALSE
    [] s = "again" -> FALSE [] s = "zap" -> FALSE [] s = "fork" -> FALSE [] s = "credit" -> FALSE [] s = "probe" -> FALSE [] s = "seed" -> FALSE
    [] s = "recheck" -> FALSE [] s = "copy" -> FALSE [] s = "copySlot" -> FALSE [] s = "initializer" -> TRUE [] s = "onlyOwner" -> FALSE
    [] s = "c" -> FALSE [] s = "self" -> FALSE [] s = "unknown" -> FALSE [] s = "token" -> FALSE [] s = "Token" -> FALSE [] s = "C" -> FALSE
    [] s = "balanceof" -> FALSE [] s = "balanceof(address)" -> FALSE [] s = "burn" -> FALSE [] s = "lastbalance" -> FALSE [] s = "mint" -> FALSE
    [] s = "sync" -> FALSE [] s = "totalsupply" -> FALSE [] s = "transfer" -> FALSE [] s = "transferfrom" -> FALSE [] s = "balanceOf" -> FALSE
    [] s = "setab" -> FALSE [] s = "setb" -> FALSE [] s = "a" -> FALSE [] s = "b" -> FALSE [] s = "adminset" -> FALSE [] s = "copyslot" -> FALSE
    [] s = "onlyowner" -> FALSE

HasInitHint(s) ==
  CASE s = "deposit" -> FALSE [] s = "withdraw" -> FALSE [] s = "setab" -> FALSE [] s = "setb" -> FALSE [] s = "check" -> FALSE
    [] s = "initialize" -> TRUE [] s = "setup" -> TRUE [] s = "join" -> FALSE [] s = "helper" -> FALSE [] s = "a" -> FALSE [] s = "b" -> FALSE
    [] s = "constructor" -> FALSE [] s = "adminset" -> FALSE [] s = "put" -> FALSE [] s = "get" -> FALSE [] s = "loop" -> FALSE
    [] s = "again" -> FALSE [] s = "zap" -> FALSE [] s = "fork" -> FALSE [] s = "credit" -> FALSE [] s = "probe" -> FALSE [] s = "seed" -> FALSE
    [] s = "recheck" -> FALSE [] s = "copy" -> FALSE [] s = "copyslot" -> FALSE

MentionsInitializer(s) ==
  CASE s = "initializer" -> TRUE [] s = "onlyowner" -> FALSE

MentionsReinitializer(s) ==
  CASE s = "initializer" -> FALSE [] s = "onlyowner" -> FALSE

SplitDot0(s) ==
  CASE s = "deposit()" -> "deposit()" [] s = "withdraw()" -> "withdraw()" [] s = "setAB()" -> "setAB()" [] s = "setB()" -> "setB()"
    [] s = "check()" -> "check()" [] s = "initialize()" -> "initialize()" [] s = "setup()" -> "setup()" [] s = "join()" -> "join()"
    [] s = "helper()" -> "helper()" [] s = "A()" -> "A()" [] s = "B()" -> "B()" [] s = "constructor()" -> "constructor()"
    [] s = "adminSet()" -> "adminSet()" [] s = "put()" -> "put()" [] s = "get()" -> "get()" [] s = "loop()" -> "loop()" [] s = "again()" -> "again()"
    [] s = "zap()" -> "zap()" [] s = "fork()" -> "fork()" [] s = "credit()" -> "credit()" [] s = "probe()" -> "probe()" [] s = "seed()" -> "seed()"
    [] s = "recheck()" -> "recheck()" [] s = "copy()" -> "copy()" [] s = "copySlot()" -> "copySlot()" [] s = "C.deposit()" -> "C"
    [] s = "C.withdraw()" -> "C"

MergeOverloadName(s) ==
  CASE s = "deposit()" -> "deposit()" [] s = "withdraw()" -> "withdraw()" [] s = "setAB()" -> "setAB()" [] s = "setB()" -> "setB()"
    [] s = "check()" -> "check()" [] s = "initialize()" -> "initialize()" [] s = "setup()" -> "setup()" [] s = "join()" -> "join()"
    [] s = "helper()" -> "helper()" [] s = "A()" -> "A()" [] s = "B()" -> "B()" [] s = "constructor()" -> "constructor()"
    [] s = "adminSet()" -> "adminSet()" [] s = "put()" -> "put()" [] s = "get()" -> "get()" [] s = "loop()" -> "loop()" [] s = "again()" -> "again()"
    [] s = "zap()" -> "zap()" [] s = "fork()" -> "fork()" [] s = "credit()" -> "credit()" [] s = "probe()" -> "probe()" [] s = "seed()" -> "seed()"
    [] s = "recheck()" -> "recheck()" [] s = "copy()" -> "copy()" [] s = "copySlot()" -> "copySlot()"

LstripLower(s) ==
  CASE s = "balance" -> "balance" [] s = "msg.value" -> "msg.value" [] s = "paid" -> "paid" [] s = "true" -> "true" [] s = "a" -> "a"
    [] s = "x" -> "x" [] s = "b" -> "b" [] s = "y" -> "y" [] s = "initialized" -> "initialized" [] s = "0" -> "0" [] s = "m" -> "m"
    [] s = "m[msg.sender]" -> "m[msg.sender]" [] s = "n" -> "n" [] s = "n[id]" -> "n[id]" [] s = "m[to]" -> "m[to]"
    [] s = "m[address(msg.sender)]" -> "m[address(msg.sender)]" [] s = "balances" -> "balances"
    [] s = "balances[msg.sender]" -> "balances[msg.sender]" [] s = "t1" -> "t1" [] s = "t2" -> "t2" [] s = "t3" -> "t3" [] s = "t4" -> "t4"
    [] s = "t5" -> "t5" [] s = "t6" -> "t6" [] s = "msg.sender" -> "msg.sender" [] s = "id" -> "id" [] s = "to" -> "to"
    [] s = "address(msg.sender)" -> "address(msg.sender)" [] s = "m[id]" -> "m[id]" [] s = "n[msg.sender]" -> "n[msg.sender]"
    [] s = "n[to]" -> "n[to]" [] s = "balances[id]" -> "balances[id]" [] s = "balances[to]" -> "balances[to]" [] s = "{a, b}" -> "{a, b}"
    [] s = "{m, n}" -> "{m, n}" [] s = "{a, paid}" -> "{a, paid}"

FlipRhs(s) ==
  CASE s = "balance" -> FALSE [] s = "msg.value" -> FALSE [] s = "paid" -> FALSE [] s = "true" -> TRUE [] s = "a" -> FALSE [] s = "x" -> FALSE
    [] s = "b" -> FALSE [] s = "y" -> FALSE [] s = "initialized" -> TRUE [] s = "0" -> FALSE [] s = "m" -> FALSE [] s = "m[msg.sender]" -> FALSE
    [] s = "n" -> FALSE [] s = "n[id]" -> FALSE [] s = "m[to]" -> FALSE [] s = "m[address(msg.sender)]" -> FALSE [] s = "balances" -> FALSE
    [] s = "balances[msg.sender]" -> FALSE [] s = "t1" -> FALSE [] s = "t2" -> FALSE [] s = "t3" -> FALSE [] s = "t4" -> FALSE [] s = "t5" -> FALSE
    [] s = "t6" -> FALSE [] s = "msg.sender" -> FALSE [] s = "id" -> FALSE [] s = "to" -> FALSE [] s = "address(msg.sender)" -> FALSE
    [] s = "m[id]" -> FALSE [] s = "n[msg.sender]" -> FALSE [] s = "n[to]" -> FALSE [] s = "balances[id]" -> FALSE [] s = "balances[to]" -> FALSE
    [] s = "{a, b}" -> FALSE [] s = "{m, n}" -> FALSE [] s = "{a, paid}" -> FALSE

ResetRhs(s) ==
  CASE s = "balance" -> FALSE [] s = "msg.value" -> FALSE [] s = "paid" -> FALSE [] s = "true" -> FALSE [] s = "a" -> FALSE [] s = "x" -> FALSE
    [] s = "b" -> FALSE [] s = "y" -> FALSE [] s = "initialized" -> FALSE [] s = "0" -> TRUE [] s = "m" -> FALSE [] s = "m[msg.sender]" -> FALSE
    [] s = "n" -> FALSE [] s = "n[id]" -> FALSE [] s = "m[to]" -> FALSE [] s = "m[address(msg.sender)]" -> FALSE [] s = "balances" -> FALSE
    [] s = "balances[msg.sender]" -> FALSE [] s = "t1" -> FALSE [] s = "t2" -> FALSE [] s = "t3" -> FALSE [] s = "t4" -> FALSE [] s = "t5" -> FALSE
    [] s = "t6" -> FALSE [] s = "msg.sender" -> FALSE [] s = "id" -> FALSE [] s = "to" -> FALSE [] s = "address(msg.sender)" -> FALSE
    [] s = "m[id]" -> FALSE [] s = "n[msg.sender]" -> FALSE [] s = "n[to]" -> FALSE [] s = "balances[id]" -> FALSE [] s = "balances[to]" -> FALSE
    [] s = "{a, b}" -> FALSE [] s = "{m, n}" -> FALSE [] s = "{a, paid}" -> FALSE

CallSelector(s) ==
  CASE s = "deposit" -> "deposit" [] s = "withdraw" -> "withdraw" [] s = "setAB" -> "setab" [] s = "setB" -> "setb" [] s = "check" -> "check"
    [] s = "initialize" -> "initialize" [] s = "setup" -> "setup" [] s = "join" -> "join" [] s = "helper" -> "helper" [] s = "A" -> "a"
    [] s = "B" -> "b" [] s = "constructor" -> "constructor" [] s = "adminSet" -> "adminset" [] s = "put" -> "put" [] s = "get" -> "get"
    [] s = "loop" -> "loop" [] s = "again" -> "again" [] s = "zap" -> "zap" [] s = "fork" -> "fork" [] s = "credit" -> "credit"
    [] s = "probe" -> "probe" [] s = "seed" -> "seed" [] s = "recheck" -> "recheck" [] s = "copy" -> "copy" [] s = "copySlot" -> "copyslot"
    [] s = "balanceOf" -> "balanceof"

SortedFullNames == <<"A()", "B()", "adminSet()", "again()", "check()", "constructor()", "copy()", "copySlot()", "credit()", "deposit()", "fork()", "get()", "helper()", "initialize()", "join()", "loop()", "probe()", "put()", "recheck()", "seed()", "setAB()", "setB()", "setup()", "withdraw()", "zap()">>

SortedVarNames == <<"0", "a", "b", "balance", "balances", "balances[id]", "balances[msg.sender]", "balances[to]", "id", "initialized", "m", "m[id]", "m[msg.sender]", "m[to]", "msg.sender", "msg.value", "n", "n[id]", "n[msg.sender]", "n[to]", "paid", "t1", "t2", "t3", "t4", "t5", "t6", "to", "true", "x", "y">>

(***************************************************************************)
(* The library of functions compilation units are assembled from.          *)
LibNames == <<"deposit()", "withdraw()", "setAB()", "setB()", "check()", "initialize()", "setup()", "join()", "helper()", "A()", "B()", "constructor()", "adminSet()", "put()", "get()", "loop()", "again()", "zap()", "credit()", "probe()", "seed()", "recheck()", "copy()", "copySlot()">>

\* functions with longer bodies, for the searches taken one step at a time
DeepNames == <<"fork()">>

LibFn(f, k) ==
  CASE f = "deposit()" /\ k = 1 ->
     Fn("deposit", "deposit()", "public", FALSE, {}, FALSE, "C", <<>>,
     << Node("EXPRESSION", {}, {SV("balance", "C")},
             <<Asg(SV("balance", "C"), LOC("msg.value"))>>, {}, "balance = msg.value") >>)
    [] f = "deposit()" /\ k = 2 ->
     Fn("deposit", "deposit()", "public", FALSE, {}, FALSE, "C", <<>>,
     << Node("EXPRESSION", {SV("balance", "C")}, {SV("balance", "C")},
             <<Bin(SV("balance", "C"))>>, {}, "balance += msg.value") >>)
    [] f = "withdraw()" /\ k = 1 ->
     Fn("withdraw", "withdraw()", "public", FALSE, {}, FALSE, "C", <<>>,
     << Node("REQUIRE", {SV("balance", "C")}, {},
             <<>>, {2}, "require(bool)(balance > 0)"),
        Node("EXPRESSION", {}, {SV("paid", "C")},
             <<Asg(SV("paid", "C"), CONST("true"))>>, {}, "paid = true") >>)
    [] f = "withdraw()" /\ k = 2 ->
     Fn("withdraw", "withdraw()", "public", FALSE, {}, FALSE, "C", <<>>,
     << Node("REQUIRE", {SV("balance", "C")}, {},
             <<>>, {}, "require(bool)(balance > 0)") >>)
    [] f = "setAB()" /\ k = 1 ->
     Fn("setAB", "setAB()", "public", FALSE, {}, FALSE, "C", <<>>,
     << Node("EXPRESSION", {}, {SV("a", "C")},
             <<Asg(SV("a", "C"), LOC("x"))>>, {2}, "a = x"),
        Node("EXPRESSION", {}, {SV("b", "C")},
             <<Asg(SV("b", "C"), LOC("y"))>>, {}, "b = y") >>)
    [] f = "setAB()" /\ k = 2 ->
     Fn("setAB", "setAB()", "public", FALSE, {}, FALSE, "C", <<>>,
     << Node("EXPRESSION", {SV("a", "C")}, {SV("a", "C")},
             <<Bin(SV("a", "C"))>>, {2}, "a += x"),
        Node("EXPRESSION", {SV("b", "C")}, {SV("b", "C")},
             <<Bin(SV("b", "C"))>>, {}, "b += y") >>)
    [] f = "setB()" /\ k = 1 ->
     Fn("setB", "setB()", "public", FALSE, {}, FALSE, "C", <<>>,
     << Node("EXPRESSION", {}, {SV("b", "C")},
             <<Asg(SV("b", "C"), LOC("y"))>>, {}, "b = y") >>)
    [] f = "check()" /\ k = 1 ->
     Fn("check", "check()", "public", FALSE, {}, FALSE, "C", <<>>,
     << Node("IF", {SV("a", "C"), SV("b", "C")}, {},
             <<>>, {}, "a > 0 && b > 0") >>)
    [] f = "check()" /\ k = 2 ->
     Fn("check", "check()", "public", FALSE, {}, FALSE, "C", <<>>,
     << Node("IF", {SV("a", "C"), SV("b", "C")}, {},
             <<>>, {2}, "a > 0 && b > 0"),
        Node("EXPRESSION", {}, {SV("b", "C")},
             <<Asg(SV("b", "C"), LOC("y"))>>, {}, "b = y") >>)
    [] f = "initialize()" /\ k = 1 ->
     Fn("initialize", "initialize()", "public", FALSE, {}, FALSE, "C", <<>>,
     << Node("REQUIRE", {SV("initialized", "C")}, {},
             <<>>, {2}, "require(bool)(! initialized)"),
        Node("EXPRESSION", {}, {SV("a", "C"), SV("initialized", "C")},
             <<Asg(SV("a", "C"), LOC("x")), Asg(SV("initialized", "C"), CONST("true"))>>, {}, "a = x; initialized = true") >>)
    [] f = "setup()" /\ k = 1 ->
     Fn("setup", "setup()", "internal", FALSE, {}, FALSE, "C", <<>>,
     << Node("EXPRESSION", {}, {SV("balance", "C")},
             <<Asg(SV("balance", "C"), CONST("0"))>>, {}, "balance = 0") >>)
    [] f = "join()" /\ k = 1 ->
     Fn("join", "join()", "public", FALSE, {}, FALSE, "C", <<>>,
     << Node("EXPRESSION", {}, {},
             <<Call("InternalCall", "setup()", "setup", <<>>, "")>>, {2}, "setup()"),
        Node("EXPRESSION", {}, {SV("balance", "C")},
             <<Asg(SV("balance", "C"), LOC("msg.value"))>>, {}, "balance = msg.value") >>)
    [] f = "join()" /\ k = 2 ->
     Fn("join", "join()", "public", FALSE, {}, FALSE, "C", <<>>,
     << Node("EXPRESSION", {}, {},
             <<Call("InternalCall", "setup()", "setup", <<>>, "")>>, {2}, "setup()"),
        Node("IF", {SV("balance", "C")}, {},
             <<>>, {3}, "balance > 0"),
        Node("EXPRESSION", {}, {SV("balance", "C")},
             <<Asg(SV("balance", "C"), LOC("msg.value"))>>, {}, "balance = msg.value") >>)
    [] f = "helper()" /\ k = 1 ->
     Fn("helper", "helper()", "internal", FALSE, {}, FALSE, "C", <<>>,
     << Node("EXPRESSION", {}, {SV("balance", "C")},
             <<Asg(SV("balance", "C"), LOC("x"))>>, {}, "balance = x") >>)
    [] f = "A()" /\ k = 1 ->
     Fn("A", "A()", "public", FALSE, {}, FALSE, "C", <<>>,
     << Node("EXPRESSION", {}, {},
             <<Call("InternalCall", "B()", "B", <<>>, "")>>, {2}, "B()"),
        Node("EXPRESSION", {}, {SV("balance", "C")},
             <<Asg(SV("balance", "C"), LOC("msg.value"))>>, {}, "balance = msg.value") >>)
    [] f = "A()" /\ k = 2 ->
     Fn("A", "A()", "public", FALSE, {}, FALSE, "C", <<>>,
     << Node("EXPRESSION", {}, {},
             <<Call("InternalCall", "B()", "B", <<>>, "")>>, {2}, "B()"),
        Node("IF", {SV("balance", "C")}, {},
             <<>>, {3}, "balance > 0"),
        Node("EXPRESSION", {}, {SV("paid", "C")},
             <<Asg(SV("paid", "C"), CONST("true"))>>, {}, "paid = true") >>)
    [] f = "B()" /\ k = 1 ->
     Fn("B", "B()", "public", FALSE, {}, FALSE, "C", <<>>,
     << Node("EXPRESSION", {}, {},
             <<Call("InternalCall", "A()", "A", <<>>, "")>>, {2}, "A()"),
        Node("IF", {SV("balance", "C")}, {},
             <<>>, {3}, "balance > 0"),
        Node("EXPRESSION", {}, {SV("paid", "C")},
             <<Asg(SV("paid", "C"), CONST("true"))>>, {}, "paid = true") >>)
    [] f = "B()" /\ k = 2 ->
     Fn("B", "B()", "public", FALSE, {}, FALSE, "C", <<>>,
     << Node("EXPRESSION", {}, {},
             <<Call("InternalCall", "A()", "A", <<>>, "")>>, {2}, "A()"),
        Node("EXPRESSION", {}, {SV("balance", "C")},
             <<Asg(SV("balance", "C"), LOC("msg.value"))>>, {}, "balance = msg.value") >>)
    [] f = "constructor()" /\ k = 1 ->
     Fn("constructor", "constructor()", "public", TRUE, {}, FALSE, "C", <<>>,
     << Node("EXPRESSION", {}, {SV("balance", "C"), SV("a", "C")},
             <<Asg(SV("balance", "C"), CONST("0")), Asg(SV("a", "C"), CONST("0"))>>, {}, "balance = 0; a = 0") >>)
    [] f = "adminSet()" /\ k = 1 ->
     Fn("adminSet", "adminSet()", "public", FALSE, {"onlyOwner"}, FALSE, "C", <<>>,
     << Node("EXPRESSION", {}, {SV("balance", "C")},
             <<Asg(SV("balance", "C"), LOC("x"))>>, {}, "balance = x") >>)
    [] f = "put()" /\ k = 1 ->
     Fn("put", "put()", "public", FALSE, {}, FALSE, "C", <<>>,
     << Node("EXPRESSION", {}, {SV("m", "C"), IDX(SV("m", "C"), "msg.sender")},
             <<Asg(IDX(SV("m", "C"), "msg.sender"), LOC("x"))>>, {}, "m[msg.sender] = x") >>)
    [] f = "put()" /\ k = 2 ->
     Fn("put", "put()", "public", FALSE, {}, FALSE, "C", <<>>,
     << Node("EXPRESSION", {}, {SV("m", "C"), IDX(SV("m", "C"), "msg.sender"), SV("n", "C"), IDX(SV("n", "C"), "id")},
             <<Asg(IDX(SV("m", "C"), "msg.sender"), LOC("x")), Asg(IDX(SV("n", "C"), "id"), LOC("y"))>>, {}, "m[msg.sender] = x; n[id] = y") >>)
    [] f = "get()" /\ k = 1 ->
     Fn("get", "get()", "public", FALSE, {}, FALSE, "C", <<>>,
     << Node("IF", {SV("m", "C"), IDX(SV("m", "C"), "to")}, {},
             <<>>, {2}, "m[to] > 0"),
        Node("EXPRESSION", {}, {SV("paid", "C")},
             <<Asg(SV("paid", "C"), CONST("true"))>>, {}, "paid = true") >>)
    [] f = "get()" /\ k = 2 ->
     Fn("get", "get()", "public", FALSE, {}, FALSE, "C", <<>>,
     << Node("IF", {SV("m", "C"), IDX(SV("m", "C"), "address(msg.sender)")}, {},
             <<>>, {2}, "m[address(msg.sender)] > 0"),
        Node("EXPRESSION", {}, {SV("paid", "C")},
             <<Asg(SV("paid", "C"), CONST("true"))>>, {}, "paid = true") >>)
    [] f = "get()" /\ k = 3 ->
     Fn("get", "get()", "public", FALSE, {}, FALSE, "C", <<>>,
     << Node("IF", {SV("m", "C"), IDX(SV("m", "C"), "to"), SV("n", "C"), IDX(SV("n", "C"), "id")}, {},
             <<>>, {2}, "m[to] > 0 && n[id] > 0"),
        Node("EXPRESSION", {}, {SV("paid", "C")},
             <<Asg(SV("paid", "C"), CONST("true"))>>, {}, "paid = true") >>)
    [] f = "loop()" /\ k = 1 ->
     Fn("loop", "loop()", "public", FALSE, {}, FALSE, "C", <<>>,
     << Node("IF", {SV("balance", "C")}, {},
             <<>>, {2}, "balance > 0"),
        Node("EXPRESSION", {}, {SV("paid", "C")},
             <<Asg(SV("paid", "C"), CONST("true"))>>, {1}, "paid = true") >>)
    [] f = "loop()" /\ k = 2 ->
     Fn("loop", "loop()", "public", FALSE, {}, FALSE, "C", <<>>,
     << Node("EXPRESSION", {SV("balance", "C")}, {SV("paid", "C")},
             <<Asg(SV("paid", "C"), SV("balance", "C"))>>, {2}, "paid = balance"),
        Node("IF", {SV("a", "C")}, {},
             <<>>, {1}, "a > 0") >>)
    [] f = "again()" /\ k = 1 ->
     Fn("again", "again()", "public", FALSE, {}, FALSE, "C", <<>>,
     << Node("EXPRESSION", {}, {SV("balance", "C")},
             <<Asg(SV("balance", "C"), LOC("msg.value"))>>, {2}, "balance = msg.value"),
        Node("EXPRESSION", {}, {},
             <<Call("InternalCall", "again()", "again", <<>>, "")>>, {}, "again()") >>)
    [] f = "zap()" /\ k = 1 ->
     Fn("zap", "zap()", "public", FALSE, {}, FALSE, "C", <<>>,
     << Node("EXPRESSION", {}, {},
             <<Call("InternalCall", "withdraw()", "withdraw", <<>>, "")>>, {2}, "withdraw()"),
        Node("EXPRESSION", {}, {SV("balance", "C")},
             <<Asg(SV("balance", "C"), LOC("msg.value"))>>, {}, "balance = msg.value") >>)
    [] f = "fork()" /\ k = 1 ->
     Fn("fork", "fork()", "public", FALSE, {}, FALSE, "C", <<>>,
     << Node("EXPRESSION", {SV("a", "C")}, {SV("paid", "C")},
             <<Asg(SV("paid", "C"), SV("a", "C"))>>, {2}, "paid = a"),
        Node("IF", {SV("b", "C")}, {},
             <<>>, {3, 5}, "b > 0"),
        Node("EXPRESSION", {}, {SV("a", "C")},
             <<Asg(SV("a", "C"), LOC("x"))>>, {4}, "a = x"),
        Node("IF", {SV("a", "C")}, {},
             <<>>, {}, "a > 0"),
        Node("EXPRESSION", {}, {SV("paid", "C")},
             <<Asg(SV("paid", "C"), CONST("true"))>>, {6}, "paid = true"),
        Node("EXPRESSION", {}, {SV("b", "C")},
             <<Asg(SV("b", "C"), LOC("y"))>>, {}, "b = y") >>)
    [] f = "credit()" /\ k = 1 ->
     Fn("credit", "credit()", "public", FALSE, {}, FALSE, "C", <<>>,
     << Node("EXPRESSION", {}, {SV("balances", "C"), IDX(SV("balances", "C"), "msg.sender")},
             <<Asg(IDX(SV("balances", "C"), "msg.sender"), LOC("x"))>>, {}, "balances[msg.sender] = x") >>)
    [] f = "probe()" /\ k = 1 ->
     Fn("probe", "probe()", "public", FALSE, {}, FALSE, "C", <<>>,
     << Node("IF", {}, {},
             <<Call("HighLevelCall", "", "balanceOf", <<>>, "c")>>, {2}, "c.balanceOf(msg.sender) > 0"),
        Node("EXPRESSION", {}, {SV("paid", "C")},
             <<Asg(SV("paid", "C"), CONST("true"))>>, {}, "paid = true") >>)
    [] f = "probe()" /\ k = 2 ->
     Fn("probe", "probe()", "public", FALSE, {}, FALSE, "C", <<>>,
     << Node("IF", {}, {},
             <<Call("HighLevelCall", "", "balanceOf", <<>>, "")>>, {2}, "balanceOf(msg.sender) > 0"),
        Node("EXPRESSION", {}, {SV("paid", "C")},
             <<Asg(SV("paid", "C"), CONST("true"))>>, {}, "paid = true") >>)
    [] f = "seed()" /\ k = 1 ->
     Fn("seed", "seed()", "public", FALSE, {"initializer"}, FALSE, "C", <<>>,
     << Node("EXPRESSION", {}, {SV("a", "C")},
             <<Asg(SV("a", "C"), LOC("x"))>>, {}, "a = x") >>)
    [] f = "recheck()" /\ k = 1 ->
     Fn("recheck", "recheck()", "public", FALSE, {}, FALSE, "C", <<>>,
     << Node("EXPRESSION", {SV("a", "C")}, {SV("paid", "C")},
             <<Asg(SV("paid", "C"), SV("a", "C"))>>, {2}, "paid = a"),
        Node("EXPRESSION", {}, {SV("a", "C")},
             <<Asg(SV("a", "C"), LOC("x"))>>, {3}, "a = x"),
        Node("IF", {SV("a", "C"), SV("b", "C")}, {},
             <<>>, {}, "a > 0 && b > 0") >>)
    [] f = "recheck()" /\ k = 2 ->
     Fn("recheck", "recheck()", "public", FALSE, {}, FALSE, "C", <<>>,
     << Node("IF", {SV("paid", "C"), SV("a", "C")}, {},
             <<>>, {2, 3}, "paid && a > 0"),
        Node("EXPRESSION", {}, {SV("a", "C")},
             <<Asg(SV("a", "C"), LOC("x"))>>, {3}, "a = x"),
        Node("IF", {SV("a", "C")}, {},
             <<>>, {}, "a > 0") >>)
NVariants(f) ==
  CASE f = "deposit()" -> 2
    [] f = "withdraw()" -> 2
    [] f = "setAB()" -> 2
    [] f = "setB()" -> 1
    [] f = "check()" -> 2
    [] f = "initialize()" -> 1
    [] f = "setup()" -> 1
    [] f = "join()" -> 2
    [] f = "helper()" -> 1
    [] f = "A()" -> 2
    [] f = "B()" -> 2
    [] f = "constructor()" -> 1
    [] f = "adminSet()" -> 1
    [] f = "put()" -> 2
    [] f = "get()" -> 3
    [] f = "loop()" -> 2
    [] f = "again()" -> 1
    [] f = "zap()" -> 1
    [] f = "fork()" -> 1
    [] f = "credit()" -> 1
    [] f = "probe()" -> 2
    [] f = "seed()" -> 1
    [] f = "recheck()" -> 2

\* the local alias t<i>
Tmp(i) == LOC("t" \o ToString(i))

\* A self-copy of target through a chain of d local aliases in one node:
\* d = 0: target := target;  d = 1: t1 := target, target := t1;
\* d = 2: t1 := t2, t2 := target, target := t1; ...
CopyIrs(target, d) ==
  IF d = 0 THEN <<Asg(target, target)>>
  ELSE [i \in 1..(d - 1) |-> Asg(Tmp(i), Tmp(i + 1))] \o <<Asg(Tmp(d), target), Asg(target, Tmp(1))>>

\* the variants of a library function: LibFn for the fixed ones, one per
\* alias depth 0..MaxDepth for copy() and copySlot()
Variants(f) == IF f \in {"copy()", "copySlot()"} THEN 0..MaxDepth ELSE 1..NVariants(f)

Variant(f, k) ==
  IF f = "copy()"
  THEN Fn("copy", "copy()", "public", FALSE, {}, FALSE, "C", <<>>,
          << Node("EXPRESSION", {SV("balance", "C")}, {SV("balance", "C")},
                  CopyIrs(SV("balance", "C"), k), {}, "balance = balance") >>)
  ELSE IF f = "copySlot()"
  THEN Fn("copySlot", "copySlot()", "public", FALSE, {}, FALSE, "C", <<>>,
          << Node("EXPRESSION", {SV("m", "C")}, {SV("m", "C")},
                  CopyIrs(IDX(SV("m", "C"), "msg.sender"), k), {}, "m[msg.sender] = m[msg.sender]") >>)
  ELSE LibFn(f, k)

(***************************************************************************)
(* Variable abstractions of the SDG (sdg.py).  A StateVariable is the      *)
(* front-end tuple itself; MappingSlotVar, ExternalStateVar and (in        *)
(* inconsistent_state.py) MultiVarGroup are tuples tagged with their class.*)
(***************************************************************************)
None == <<"NONE", "", "">>

MappingSlotVar(base, key) == <<"SLOT", base, key>>
IsMappingSlotVar(v) == v[1] = "SLOT"

AddrOrDefault(addr, default) == IF addr = "" THEN default ELSE addr

\* ExternalStateVar.__init__: selector.lower(), (addr or "unknown").lower()
ExternalStateVar(selector, addr) == <<"EXT", Lower(AddrOrDefault(addr, "unknown")), Lower(selector)>>
IsExternalStateVar(v) == v[1] = "EXT"

\* MultiVarGroup(gid, vars_): equality and hash use the gid alone; the
\* members are a function of the gid within one run
MultiVarGroup(gid, vars) == <<"MVG", gid, vars>>
IsMultiVarGroup(v) == v[1] = "MVG"

canon_key(k) == norm_txt(k)
mk_slot(base, key) == MappingSlotVar(base, canon_key(key))

\* getattr(v, "name", default) of a front-end reference
HasName(v) == v[1] \in {"SV", "LOC"}

\* the name property of a variable abstraction
RECURSIVE JoinNames(_)
JoinNames(names) ==
  IF names = <<>> THEN ""
  ELSE IF Len(names) = 1 THEN names[1]
  ELSE names[1] \o ", " \o JoinNames(Tail(names))

VarName(v) ==
  CASE v[1] = "SV" -> v[2]
    [] v[1] = "SLOT" -> v[2][2] \o "[" \o v[3] \o "]"
    [] v[1] = "EXT" -> v[2] \o "." \o v[3]
    [] v[1] = "MVG" -> "{" \o JoinNames([i \in 1..Len(v[3]) |-> v[3][i][2]]) \o "}"

var_key_txt(v) == norm_txt(VarName(v))

EXT_READS == {"balanceof", "balanceof(address)", "totalsupply", "lastbalance"}
EXT_WRITES == {"transfer", "transferfrom", "mint", "burn", "sync"}
BalanceMappingNames == {"balances", "_balances", "balanceOf"}

StorageNames == {"_lastBalance", "balances", "_balances", "balanceOf"}
STORAGE_TO_SELECTOR(name) ==
  CASE name = "_lastBalance" -> "lastbalance"
    [] name \in BalanceMappingNames -> "balanceof"

branch_types == {"IF", "REQUIRE", "ASSERT", "REVERT"}

(***************************************************************************)
(* The alias registry (alias.py): a map from AliasKey to the proxy.        *)
(***************************************************************************)
EmptyMap == [x \in {} |-> {}]

\* AliasRegistry._canon
AliasKey(addr, selector, caller_fn_full) ==
  <<Lower(AddrOrDefault(addr, "self")), Lower(selector), SplitDot0(caller_fn_full)>>

\* get_or_create that binds the key to the wrapper of every call
RegAfter_rebinding(reg, addr, selector, caller, wrapper) ==
  LET k == <<Lower(AddrOrDefault(addr, "self")), Lower(selector), SplitDot0(caller)>>
  IN  [x \in DOMAIN reg \cup {k} |-> IF x = k THEN wrapper ELSE reg[x]]

\* AliasRegistry.get_or_create: the registry after the call, and the proxy
\* it returns
RegAfter(reg, addr, selector, caller, wrapper) ==
  LET k == AliasKey(addr, selector, caller)
  IN  IF k \in DOMAIN reg THEN reg ELSE reg @@ (k :> wrapper)

get_or_create(reg, addr, selector, caller, wrapper) ==
  RegAfter(reg, addr, selector, caller, wrapper)[AliasKey(addr, selector, caller)]

(***************************************************************************)
(* SDG (sdg.py): blocks[bid] = reads / writes / succ, the maps from a      *)
(* variable to the blocks that read and write it, fn_lookup in insertion   *)
(* order, the branch groups and the return summaries.                      *)
(***************************************************************************)
NewSDG ==
  [blocks |-> EmptyMap, var_reads |-> EmptyMap, var_writes |-> EmptyMap, fn_lookup |-> <<>>,
   branch_groups |-> EmptyMap, var_to_branchgroups |-> EmptyMap, fn_returns |-> EmptyMap]

EmptyBlock == [reads |-> {}, writes |-> {}, succ |-> {}]

Range(s) == {s[i] : i \in DOMAIN s}

\* m[k] |= s on a defaultdict(set)
AddTo(m, k, s) == IF k \in DOMAIN m THEN [m EXCEPT ![k] = @ \cup s] ELSE m @@ (k :> s)

\* for k in ks: m[k].add(b)
AddEach(m, ks, b) ==
  [k \in DOMAIN m \cup ks |-> (IF k \in DOMAIN m THEN m[k] ELSE {}) \cup (IF k \in ks THEN {b} ELSE {})]

\* dict.setdefault / first assignment on the insertion-ordered fn_lookup
LookupAdd(fn_lookup, full_name) == IF full_name \in Range(fn_lookup) THEN fn_lookup ELSE Append(fn_lookup, full_name)

\* the StateVariables and the mapping slots among front-end references
StateVarsOf(refs) == {v \in refs : IsStateVariable(v)}
SlotsOf(refs) == {mk_slot(v[2], v[3]) : v \in {r \in refs : is_index_var(r)}}
LvalueSlots(irs) ==
  {mk_slot(irs[i].lv[2], irs[i].lv[3]) : i \in {j \in DOMAIN irs : IsOperationWithLValue(irs[j]) /\ is_index_var(irs[j].lv)}}

\* contract_id(contract): canonical_name, which the front end gives every contract
contract_id(contract) == contract

\* callee.entry_point is not None, for ir.function = callee
HasEntryPoint(cu, callee) == callee /= "" /\ callee \in DOMAIN cu.fns /\ Len(cu.fns[callee].nodes) > 0

\* add_block, lines 254-283: the return summary of fn, or {} when fn gets none
ReturnSummary(fn) ==
  LET writes_storage ==
        \E i \in DOMAIN fn.nodes :
           \/ StateVarsOf(fn.nodes[i].variables_written) /= {}
           \/ LvalueSlots(fn.nodes[i].irs) /= {}
      ret_nodes == {i \in DOMAIN fn.nodes : fn.nodes[i].type = "RETURN"}
      expr_vars ==
        UNION {StateVarsOf(fn.nodes[i].variables_read)
               \cup {mk_slot(fn.nodes[i].irs[j].lv[2], fn.nodes[i].irs[j].lv[3]) :
                       j \in {k \in DOMAIN fn.nodes[i].irs : fn.nodes[i].irs[k].op = "Index"}} : i \in ret_nodes}
  IN  IF ~writes_storage /\ Cardinality(expr_vars) >= 2 THEN expr_vars ELSE {}

\* next((f for f in fn_lookup.values() if f.name == callee_name), None);
\* "" when there is none
RECURSIVE FirstNamed(_, _, _)
FirstNamed(cu, fn_lookup, callee_name) ==
  IF fn_lookup = <<>> THEN ""
  ELSE IF cu.fns[Head(fn_lookup)].name = callee_name THEN Head(fn_lookup)
  ELSE FirstNamed(cu, Tail(fn_lookup), callee_name)

\* the function whose summary a call IR uses: the resolved callee, or for
\* an unresolved call the first function of that name; "" when none
SummaryOf(cu, sdg, ir) ==
  IF ir.callee /= ""
  THEN (IF ir.callee \in DOMAIN sdg.fn_returns THEN ir.callee ELSE "")
  ELSE LET callee_fn == FirstNamed(cu, sdg.fn_lookup, ir.fname)
       IN  IF callee_fn /= "" /\ callee_fn \in DOMAIN sdg.fn_returns THEN callee_fn ELSE ""

\* _subst_returns_with_args
_subst_returns_with_args(callee, ir, expr_vars) ==
  LET n == IF Len(callee.parameters) < Len(ir.args) THEN Len(callee.parameters) ELSE Len(ir.args)
      \* a later parameter of the same name overwrites an earlier one
      subst(key) ==
        LET hits == {i \in 1..n : callee.parameters[i] = key}
        IN  IF hits = {} THEN key
            ELSE canon_key(Str(ir.args[CHOOSE i \in hits : \A j \in hits : j <= i]))
  IN  {IF IsMappingSlotVar(rv) THEN MappingSlotVar(rv[2], subst(rv[3])) ELSE rv : rv \in expr_vars}

\* the summarized variables all call IRs of a node contribute (lines 300-317)
InlinedReturns(cu, sdg, irs) ==
  UNION {sdg.fn_returns[SummaryOf(cu, sdg, irs[i])] :
           i \in {j \in DOMAIN irs : IsCall(irs[j]) /\ SummaryOf(cu, sdg, irs[j]) /= ""}}

\* add_block, lines 361-417: the loop over the call IRs of the node.  acc
\* carries the blocks, fn_lookup, reads, writes, succ and the registry.
\* a call site without return edges
WithReturnEdges_none(placed, exit_bids, block_id) == placed

\* self.blocks[exit_bid]["succ"].add(block_id) for every exit node of the callee
WithReturnEdges(placed, exit_bids, block_id) ==
  [b \in DOMAIN placed |-> IF b \in exit_bids THEN [placed[b] EXCEPT !.succ = @ \cup {block_id}] ELSE placed[b]]

RECURSIVE CallLoop(_, _, _, _, _, _)
CallLoop(cu, sdg, fn, block_id, irs, acc) ==
  IF irs = <<>> THEN acc
  ELSE
    LET ir == Head(irs)
    IN  IF ~IsCall(ir) THEN CallLoop(cu, sdg, fn, block_id, Tail(irs), acc)
        ELSE
          LET callee == ir.callee
              resolved == HasEntryPoint(cu, callee)
              entry_bid == <<callee, 1>>
              cnodes == cu.fns[callee].nodes
              returns == {i \in DOMAIN cnodes : cnodes[i].type = "RETURN"}
              exit_nodes == IF returns /= {} THEN returns ELSE {i \in DOMAIN cnodes : cnodes[i].sons = {}}
              exit_bids == {<<callee, i>> : i \in exit_nodes}
              placed == [b \in DOMAIN acc.blocks \cup {entry_bid} \cup exit_bids |->
                           IF b \in DOMAIN acc.blocks THEN acc.blocks[b] ELSE EmptyBlock]
              blocks1 == IF resolved
                         THEN WithReturnEdges(placed, exit_bids, block_id)
                         ELSE acc.blocks
              lookup1 == IF resolved THEN LookupAdd(acc.fn_lookup, callee) ELSE acc.fn_lookup
              succ1 == IF resolved THEN acc.succ \cup {entry_bid} ELSE acc.succ
              \* the summary lookup of an unresolved call sees fn_lookup as it is now
              summ == SummaryOf(cu, [sdg EXCEPT !.fn_lookup = lookup1], ir)
              reads1 == IF summ = "" THEN acc.reads
                        ELSE acc.reads \cup _subst_returns_with_args(cu.fns[summ], ir, sdg.fn_returns[summ])
              callee_sel == CallSelector(ir.fname)
              is_ext == callee_sel \in EXT_READS \cup EXT_WRITES
              ext_var == get_or_create(acc.reg, ir.dest, callee_sel, fn.full_name, ExternalStateVar(callee_sel, ir.dest))
              acc1 == [blocks |-> blocks1, fn_lookup |-> lookup1, succ |-> succ1,
                       reads |-> IF is_ext /\ callee_sel \in EXT_READS THEN reads1 \cup {ext_var} ELSE reads1,
                       writes |-> IF is_ext /\ callee_sel \in EXT_WRITES THEN acc.writes \cup {ext_var} ELSE acc.writes,
                       reg |-> IF is_ext
                               THEN RegAfter(acc.reg, ir.dest, callee_sel, fn.full_name, ExternalStateVar(callee_sel, ir.dest))
                               ELSE acc.reg]
          IN  CallLoop(cu, sdg, fn, block_id, Tail(irs), acc1)

\* SDG.add_block(node) for node number node_id of function fn; st holds the
\* SDG and the alias registry, PROMOTE is PROMOTE_MAPPING_BASE
add_block(cu, PROMOTE, st, fn, node_id) ==
  LET sdg == st.sdg
      node == fn.nodes[node_id]
      block_id == <<fn.full_name, node_id>>
      token_addr == contract_id(fn.contract_declarer)
      reads0 == StateVarsOf(node.variables_read) \cup SlotsOf(node.variables_read)
      writes0 == StateVarsOf(node.variables_written) \cup SlotsOf(node.variables_written) \cup LvalueSlots(node.irs)
      \* storage variables that alias a public getter selector
      sels == {STORAGE_TO_SELECTOR(w[2]) : w \in {x \in writes0 : IsStateVariable(x) /\ x[2] \in StorageNames}}
      reg1 == [k \in DOMAIN st.reg \cup {AliasKey(token_addr, sel, fn.full_name) : sel \in sels} |->
                 IF k \in DOMAIN st.reg THEN st.reg[k] ELSE ExternalStateVar(k[2], token_addr)]
      writes1 == writes0 \cup {reg1[AliasKey(token_addr, sel, fn.full_name)] : sel \in sels}
      \* return summary of the function, computed while it has none
      summary == ReturnSummary(fn)
      fn_returns1 == IF fn.full_name \notin DOMAIN sdg.fn_returns /\ summary /= {}
                     THEN sdg.fn_returns @@ (fn.full_name :> summary) ELSE sdg.fn_returns
      sdg1 == [sdg EXCEPT !.fn_returns = fn_returns1]
      \* branch groups
      is_branch == node.type \in branch_types
      inlined == IF is_branch THEN InlinedReturns(cu, sdg1, node.irs) ELSE {}
      cond_vars == StateVarsOf(node.variables_read) \cup SlotsOf(node.variables_read)
                   \cup {rv \in reads0 : IsExternalStateVar(rv)} \cup inlined
      reads1 == reads0 \cup inlined
      grouped == is_branch /\ Cardinality(cond_vars) >= 2
      members == cond_vars \cup (IF PROMOTE THEN {cv[2] : cv \in {x \in cond_vars : IsMappingSlotVar(x)}} ELSE {})
      gid == block_id
      branch_groups1 == IF grouped THEN AddTo(sdg.branch_groups, gid, members) ELSE sdg.branch_groups
      var_to_branchgroups1 == IF grouped THEN AddEach(sdg.var_to_branchgroups, members, gid) ELSE sdg.var_to_branchgroups
      \* ERC-20 balance mapping writes and the _lastBalance getter
      erc20 == \E i \in DOMAIN node.irs :
                  /\ IsOperationWithLValue(node.irs[i])
                  /\ HasName(node.irs[i].lv)
                  /\ node.irs[i].lv[2] \in BalanceMappingNames
      writes2 == writes1 \cup (IF erc20 THEN {ExternalStateVar("balanceof", token_addr)} ELSE {})
      getter == /\ \E v \in writes2 : IsStateVariable(v) /\ v[2] = "_lastBalance"
                /\ \E f \in DOMAIN cu.fns : /\ cu.fns[f].contract_declarer = fn.contract_declarer
                                            /\ cu.fns[f].name = "lastBalance"
                                            /\ cu.fns[f].visibility = "public"
      writes3 == writes2 \cup (IF getter THEN {ExternalStateVar("lastbalance", token_addr)} ELSE {})
      succ0 == {<<fn.full_name, s>> : s \in node.sons}
      acc == CallLoop(cu, sdg1, fn, block_id, node.irs,
                      [blocks |-> sdg.blocks, fn_lookup |-> sdg.fn_lookup, succ |-> succ0,
                       reads |-> reads1, writes |-> writes3, reg |-> reg1])
      committed == [reads |-> acc.reads, writes |-> acc.writes, succ |-> acc.succ]
  IN  IF block_id \in DOMAIN sdg.blocks THEN st
      ELSE [sdg |-> [blocks |-> [b \in DOMAIN acc.blocks \cup {block_id} |->
                                   IF b = block_id THEN committed ELSE acc.blocks[b]],
                     var_reads |-> AddEach(sdg.var_reads, acc.reads, block_id),
                     var_writes |-> AddEach(sdg.var_writes, acc.writes, block_id),
                     fn_lookup |-> LookupAdd(acc.fn_lookup, fn.full_name),
                     branch_groups |-> branch_groups1,
                     var_to_branchgroups |-> var_to_branchgroups1,
                     fn_returns |-> fn_returns1],
            reg |-> acc.reg]

\* build_sdg: add_block on every node of every function, in declaration order
RECURSIVE AddNodes(_, _, _, _, _)
AddNodes(cu, PROMOTE, st, fn, i) ==
  IF i > Len(fn.nodes) THEN st
  ELSE AddNodes(cu, PROMOTE, add_block(cu, PROMOTE, st, fn, i), fn, i + 1)

RECURSIVE AddFns(_, _, _, _)
AddFns(cu, PROMOTE, st, order) ==
  IF order = <<>> THEN st
  ELSE AddFns(cu, PROMOTE, AddNodes(cu, PROMOTE, st, cu.fns[Head(order)], 1), Tail(order))

build_sdg(cu, PROMOTE, reg) == AddFns(cu, PROMOTE, [sdg |-> NewSDG, reg |-> reg], cu.order)

(***************************************************************************)
(* Configuration: the environment the module-level options are read from.  *)
(* "UNSET" is a variable that is not in the environment.                   *)
(***************************************************************************)
\* the budget value None (unbounded)
NoBudget == 0 - 1
DefaultBudget == 1000

(***************************************************************************)
(* Texts as sequences of characters, and the text functions                *)
(* _parse_divergence_budget applies to the value of the option.            *)
(***************************************************************************)
Whitespace == {" "}
Digits == {"0", "1", "2", "3", "5", "7", "9"}
DigitValue(c) == CASE c = "0" -> 0 [] c = "1" -> 1 [] c = "2" -> 2 [] c = "3" -> 3 [] c = "5" -> 5 [] c = "7" -> 7 [] c = "9" -> 9

\* str.strip()
RECURSIVE str_lstrip(_)
str_lstrip(t) == IF t /= <<>> /\ Head(t) \in Whitespace THEN str_lstrip(Tail(t)) ELSE t
RECURSIVE str_rstrip(_)
str_rstrip(t) == IF t /= <<>> /\ t[Len(t)] \in Whitespace THEN str_rstrip(SubSeq(t, 1, Len(t) - 1)) ELSE t
str_strip(t) == str_rstrip(str_lstrip(t))

\* str.lower()
LowerChar(c) ==
  CASE c = "I" -> "i" [] c = "N" -> "n" [] c = "F" -> "f" [] c = "U" -> "u" [] c = "B" -> "b" [] c = "D" -> "d"
    [] c = "E" -> "e" [] c = "T" -> "t" [] c = "L" -> "l" [] c = "M" -> "m" [] c = "O" -> "o" [] OTHER -> c
str_lower(t) == [i \in DOMAIN t |-> LowerChar(t[i])]

\* the digits of a decimal literal, most significant first, as a number
RECURSIVE DecimalValue(_, _)
DecimalValue(t, acc) ==
  IF t = <<>> THEN acc
  ELSE IF Head(t) = "_" THEN DecimalValue(Tail(t), acc)
  ELSE DecimalValue(Tail(t), 10 * acc + DigitValue(Head(t)))

\* int(text): blanks around the literal are dropped, one sign may lead,
\* digits follow with single underscores allowed between two digits;
\* anything else is a ValueError
int_of(text) ==
  LET t == str_strip(text)
      negative == t /= <<>> /\ Head(t) = "-"
      body == IF t /= <<>> /\ Head(t) \in {"+", "-"} THEN Tail(t) ELSE t
      wellformed == /\ body /= <<>>
                    /\ \A i \in DOMAIN body : body[i] \in Digits \cup {"_"}
                    /\ body[1] \in Digits /\ body[Len(body)] \in Digits
                    /\ \A i \in 1..(Len(body) - 1) : ~(body[i] = "_" /\ body[i + 1] = "_")
  IN  IF wellformed
      THEN [ValueError |-> FALSE, n |-> IF negative THEN 0 - DecimalValue(body, 0) ELSE DecimalValue(body, 0)]
      ELSE [ValueError |-> TRUE, n |-> 0]

\* the words that stand for an unbounded budget (line 44)
UnboundedWords ==
  {<<"i", "n", "f">>, <<"i", "n", "f", "i", "n", "i", "t", "e">>, <<"u", "n", "l", "i", "m", "i", "t", "e", "d">>,
   <<"u", "n", "b", "o", "u", "n", "d", "e", "d">>}

\* the option is not in the environment
UnsetText == <<"UNSET">>
\* str(1000), the default os.getenv returns for it
DefaultBudgetText == <<"1", "0", "0", "0">>

\* the body of _parse_divergence_budget without the handler of ValueError:
\* the error of int() leaves the function
parse_budget_text_unhandled(text) ==
  LET budget == str_lower(str_strip(IF text = UnsetText THEN DefaultBudgetText ELSE text))
      parsed == int_of(budget)
  IN  IF budget \in UnboundedWords THEN [budget |-> NoBudget, reported |-> FALSE, raised |-> FALSE]
      ELSE IF parsed.ValueError THEN [budget |-> DefaultBudget, reported |-> FALSE, raised |-> TRUE]
      ELSE [budget |-> IF parsed.n < 0 THEN NoBudget ELSE parsed.n, reported |-> FALSE, raised |-> FALSE]

\* _parse_divergence_budget on the text of the option: the budget it
\* returns, whether it printed the error line, whether it raised
parse_budget_text(text) ==
  LET budget == str_lower(str_strip(IF text = UnsetText THEN DefaultBudgetText ELSE text))
      parsed == int_of(budget)
  IN  IF budget \in UnboundedWords THEN [budget |-> NoBudget, reported |-> FALSE, raised |-> FALSE]
      ELSE IF parsed.ValueError THEN [budget |-> DefaultBudget, reported |-> TRUE, raised |-> FALSE]
      ELSE [budget |-> IF parsed.n < 0 THEN NoBudget ELSE parsed.n, reported |-> FALSE, raised |-> FALSE]

\* the characters of the option values of the checked environments
TextOf(s) ==
  CASE s = "UNSET" -> UnsetText [] s = "0" -> <<"0">> [] s = "1" -> <<"1">> [] s = "2" -> <<"2">> [] s = "3" -> <<"3">> [] s = "5" -> <<"5">>
    [] s = "1000" -> <<"1", "0", "0", "0">> [] s = "inf" -> <<"i", "n", "f">>
    [] s = "unbounded" -> <<"u", "n", "b", "o", "u", "n", "d", "e", "d">> [] s = "-1" -> <<"-", "1">>
    [] s = "abc" -> <<"a", "b", "c">> [] s = "" -> <<>>

\* _parse_divergence_budget with None for a variable that is not set
_parse_divergence_budget_unset_unbounded(s) ==
  IF s = "UNSET" THEN NoBudget ELSE parse_budget_text(TextOf(s)).budget

\* _parse_divergence_budget on the strings of the checked environments
_parse_divergence_budget(s) == parse_budget_text(TextOf(s)).budget

\* os.getenv(name, default) == "1"
Flag(value, default) == (IF value = "UNSET" THEN default ELSE value) = "1"

\* (os.getenv("SINK_TEST") or "").strip().lower()
SinkTestOf(s) == CASE s = "UNSET" -> "" [] s = "" -> "" [] s = "samevar" -> "samevar" [] s = "value" -> "value"
                   [] s = "SameVar" -> "samevar" [] s = "none" -> "none"

DefaultEnv ==
  [DIVERGENCE_BUDGET |-> "UNSET", USER_CALLABLE_ALWAYS |-> {}, USER_CALLABLE_DENY |-> {},
   USER_CALLABLE_INCLUDE_ROLE_GATED |-> "UNSET", INIT_ONLY_FILTER |-> "UNSET", ADMIN_WRITES_BENIGN |-> "UNSET",
   COARSE_DEDUP |-> "UNSET", SINK_TEST |-> "UNSET", PROMOTE_MAPPING_BASE |-> "UNSET",
   NOOP_WRITE_FILTER |-> "UNSET", REQUIRE_SAME_SLOT_KEY |-> "UNSET", ATOMIC_GROUP |-> {}, MERGE_OVERLOADS |-> "UNSET"]

\* the module-level options of inconsistent_state.py and sdg.py
DIVERGENCE_BUDGET(e) == _parse_divergence_budget(e.DIVERGENCE_BUDGET)
USER_CALLABLE_INCLUDE_ROLE_GATED(e) == Flag(e.USER_CALLABLE_INCLUDE_ROLE_GATED, "0")
INIT_ONLY_FILTER(e) == Flag(e.INIT_ONLY_FILTER, "1")
ADMIN_WRITES_BENIGN(e) == Flag(e.ADMIN_WRITES_BENIGN, "1")
COARSE_DEDUP(e) == Flag(e.COARSE_DEDUP, "1")
SINK_TEST(e) == SinkTestOf(e.SINK_TEST)
PROMOTE_MAPPING_BASE(e) == Flag(e.PROMOTE_MAPPING_BASE, "0")
NOOP_WRITE_FILTER(e) == Flag(e.NOOP_WRITE_FILTER, "1")
REQUIRE_SAME_SLOT_KEY(e) == Flag(e.REQUIRE_SAME_SLOT_KEY, "1")
MERGE_OVERLOADS(e) == Flag(e.MERGE_OVERLOADS, "0")

\* the checked environments: the default, the two sink policies with each
\* budget, and every other option switched away from its default
BudgetTexts == {"UNSET", "0", "1", "2", "inf"}
Envs ==
  {DefaultEnv}
  \cup {[DefaultEnv EXCEPT !.SINK_TEST = s, !.DIVERGENCE_BUDGET = b] : s \in {"samevar", "value"}, b \in BudgetTexts}
  \cup {[DefaultEnv EXCEPT !.NOOP_WRITE_FILTER = "0"], [DefaultEnv EXCEPT !.REQUIRE_SAME_SLOT_KEY = "0"],
        [DefaultEnv EXCEPT !.INIT_ONLY_FILTER = "0"], [DefaultEnv EXCEPT !.ADMIN_WRITES_BENIGN = "0"],
        [DefaultEnv EXCEPT !.USER_CALLABLE_INCLUDE_ROLE_GATED = "1"], [DefaultEnv EXCEPT !.PROMOTE_MAPPING_BASE = "1"],
        [DefaultEnv EXCEPT !.COARSE_DEDUP = "0"], [DefaultEnv EXCEPT !.MERGE_OVERLOADS = "1"],
        [DefaultEnv EXCEPT !.ATOMIC_GROUP = {"deposit()", "withdraw()"}],
        [DefaultEnv EXCEPT !.USER_CALLABLE_ALWAYS = {"adminSet()"}],
        [DefaultEnv EXCEPT !.USER_CALLABLE_DENY = {"deposit()"}],
        [DefaultEnv EXCEPT !.USER_CALLABLE_ALWAYS = {"adminSet()", "initialize()", "constructor()", "setB()"},
                           !.USER_CALLABLE_DENY = {"setB()"}]}

(***************************************************************************)
(* Compilation units: up to MaxFns distinct library functions in any       *)
(* declaration order, each in one of its variants.                         *)
(***************************************************************************)
Orders == {o \in UNION {[1..n -> Range(LibNames)] : n \in 1..MaxFns} : \A i, j \in DOMAIN o : i /= j => o[i] /= o[j]}

\* a function as the compilation unit holds it: a call to a function the
\* unit does not declare is unresolved (ir.function is None)
Linked(fn, declared) ==
  [fn EXCEPT !.nodes = [i \in DOMAIN fn.nodes |->
     [fn.nodes[i] EXCEPT !.irs = [j \in DOMAIN fn.nodes[i].irs |->
        IF fn.nodes[i].irs[j].callee \in declared THEN fn.nodes[i].irs[j]
        ELSE [fn.nodes[i].irs[j] EXCEPT !.callee = ""]]]]]

CUsOf(order) ==
  {[order |-> order, fns |-> [f \in Range(order) |-> Linked(Variant(f, pick[f]), Range(order))]] :
     pick \in {p \in [Range(order) -> 0..(MaxDepth + 3)] : \A f \in Range(order) : p[f] \in Variants(f)}}

CompilationUnits == UNION {CUsOf(o) : o \in Orders}

(***************************************************************************)
(* Guards, initializers and entries (inconsistent_state.py).               *)
(***************************************************************************)
AdminModifiers ==
  {"onlyowner", "onlyadmin", "onlyrole", "onlygovernance", "onlygov", "onlydao", "onlytimelock",
   "onlyguardian", "onlymultisig", "auth", "requiresauth", "checkowner"}
InitLikeNames == {"bootstrap", "init", "initialize", "setup", "set_up"}

BranchNodes(fn) == {i \in DOMAIN fn.nodes : fn.nodes[i].type \in branch_types}

has_inline_admin_guard(fn) == \E i \in BranchNodes(fn) : InlineAdminGuardExpr(fn.nodes[i].expression)

is_admin_only(fn) == (\E m \in fn.modifiers : Lower(m) \in AdminModifiers) \/ has_inline_admin_guard(fn)

\* node_of(bid, sdg): the node of a block whose function is in fn_lookup
HasNode(cu, g, bid) == bid[1] \in Range(g.fn_lookup) /\ bid[2] \in DOMAIN cu.fns[bid[1]].nodes
node_of(cu, bid) == cu.fns[bid[1]].nodes[bid[2]]

is_branch_node(node) == node.type \in branch_types

is_external_call_node(cu, g, bid) ==
  /\ HasNode(cu, g, bid)
  /\ \E i \in DOMAIN node_of(cu, bid).irs :
        LET ir == node_of(cu, bid).irs[i]
        IN  /\ ir.op = "HighLevelCall"
            /\ \/ ir.callee = ""
               \/ cu.fns[ir.callee].contract_declarer /= cu.fns[bid[1]].contract_declarer

is_critical_sink_bid(cu, g, bid) ==
  HasNode(cu, g, bid) /\ (is_branch_node(node_of(cu, bid)) \/ is_external_call_node(cu, g, bid))

\* fn_entry_bid: the entry point, None for a function without nodes
fn_entry_bid(fn) == IF Len(fn.nodes) > 0 THEN <<fn.full_name, 1>> ELSE None

latch_candidates_from_fn_guards(fn) ==
  UNION {LatchToksOfExpr(fn.nodes[i].expression) : i \in BranchNodes(fn)}
  \cup (IF HasInitHint(Lower(fn.name))
           /\ \E m \in fn.modifiers : MentionsInitializer(Lower(m)) \/ MentionsReinitializer(Lower(m))
        THEN {"initialized"} ELSE {})

fn_has_post_guard_for(fn, L) == \E i \in BranchNodes(fn) : L \in PostGuardLatchesOfExpr(fn.nodes[i].expression)

is_creation_phase(fn) ==
  \/ fn.is_constructor
  \/ Lower(fn.name) \in InitLikeNames
  \/ \E m \in fn.modifiers : MentionsInitializer(Lower(m))

\* the blocks reachable from the blocks of `from` in one or more steps
RECURSIVE Forward(_, _, _)
Forward(blocks, frontier, post) ==
  LET nxt == UNION {blocks[b].succ : b \in frontier} \ post
  IN  IF nxt = {} THEN post ELSE Forward(blocks, nxt, post \cup nxt)

\* has_monotone_flip_write((L, "eq", None), w_bid, sdg)
has_monotone_flip_write(cu, g, L, w_bid) ==
  \E b \in Forward(g.blocks, {w_bid}, {}) :
     /\ HasNode(cu, g, b)
     /\ \E i \in DOMAIN node_of(cu, b).irs :
           LET ir == node_of(cu, b).irs[i]
           IN  IsAssignment(ir) /\ LstripLower(Str(ir.lv)) = LstripLower(L) /\ FlipRhs(Str(ir.rv))

\* has_reset((L, "eq", None), sdg)
has_reset(cu, g, L) ==
  \E b \in DOMAIN g.blocks :
     /\ HasNode(cu, g, b)
     /\ \E i \in DOMAIN node_of(cu, b).irs :
           LET ir == node_of(cu, b).irs[i]
           IN  IsAssignment(ir) /\ LstripLower(Str(ir.lv)) = LstripLower(L) /\ ResetRhs(Str(ir.rv))

initializer_fn(cu, g, fn) ==
  IF fn_entry_bid(fn) = None THEN {}
  ELSE {L \in latch_candidates_from_fn_guards(fn) :
          has_monotone_flip_write(cu, g, L, fn_entry_bid(fn)) /\ ~has_reset(cu, g, L)}

\* passes_monotone_latch collects its guard_nodes as block ids, which are
\* tuples and carry no expression: every one is skipped, latch_candidates
\* stays empty and the function returns False at line 471
passes_monotone_latch(v, w_bid, g) == FALSE

_init_only_vars(cu, g) ==
  {v \in {x \in DOMAIN g.var_writes : IsStateVariable(x)} :
     /\ g.var_writes[v] /= {}
     /\ \A bid \in g.var_writes[v] : is_creation_phase(cu.fns[bid[1]]) \/ passes_monotone_latch(v, bid, g)}

normalize_entry_name(e, entry_name) ==
  IF entry_name \in e.ATOMIC_GROUP THEN "ATOMIC_GROUP"
  ELSE IF MERGE_OVERLOADS(e) THEN MergeOverloadName(entry_name)
  ELSE entry_name

is_user_callable(e, admin_only, fn) ==
  IF fn.visibility \notin {"public", "external"} \/ fn.is_constructor \/ StartsWithInitialize(fn.name) THEN FALSE
  ELSE IF Lower(fn.name) \in InitLikeNames \/ StartsWithInitialize(Lower(fn.name)) THEN FALSE
  ELSE IF SplitDot0(fn.full_name) \in e.USER_CALLABLE_DENY THEN FALSE
  ELSE IF SplitDot0(fn.full_name) \in e.USER_CALLABLE_ALWAYS THEN TRUE
  ELSE ~(~USER_CALLABLE_INCLUDE_ROLE_GATED(e) /\ is_admin_only(fn))

(***************************************************************************)
(* Pseudo-variables and call edges (_detect, lines 815-891).               *)
(***************************************************************************)
\* position of a name in Python's string order
RECURSIVE IndexIn(_, _)
IndexIn(seq, x) == IF Head(seq) = x THEN 1 ELSE 1 + IndexIn(Tail(seq), x)
NameRank(name) == IndexIn(SortedVarNames, name)
FnRank(full_name) == IndexIn(SortedFullNames, full_name)

\* tuple(sorted(S, key=lambda x: x.name))
RECURSIVE SortedByName(_)
SortedByName(S) ==
  IF S = {} THEN <<>>
  ELSE LET first == CHOOSE v \in S : \A w \in S : NameRank(VarName(v)) <= NameRank(VarName(w))
       IN  <<first>> \o SortedByName(S \ {first})

\* the pseudo-variable of a branch group, None for a group with fewer than
\* two members that are no mapping slots
BranchPseudo(g, gid) ==
  LET concrete == {v \in g.branch_groups[gid] : ~IsMappingSlotVar(v)}
  IN  IF Cardinality(concrete) < 2 THEN None ELSE MultiVarGroup(gid, SortedByName(concrete))

\* the pseudo-variable of a return summary (lines 842-874)
SlotsAndBases(ret_vars) == ret_vars \cup {rv[2] : rv \in {x \in ret_vars : IsMappingSlotVar(x)}}
BaseOf(v) == IF IsMappingSlotVar(v) THEN v[2] ELSE v
ReturnPseudo(g, fn_name) ==
  LET sb == SlotsAndBases(g.fn_returns[fn_name])
      members == {BaseOf(x) : x \in sb}
  IN  IF Cardinality(sb) < 2 \/ Cardinality(members) < 2 THEN None
      ELSE MultiVarGroup(<<fn_name, 0>>, SortedByName(members))

BranchPseudos(g) == {BranchPseudo(g, gid) : gid \in DOMAIN g.branch_groups} \ {None}
ReturnPseudos(g) == {ReturnPseudo(g, f) : f \in DOMAIN g.fn_returns} \ {None}

\* the variables whose read and write sites a pseudo-variable unions
PseudoSources(g, p) ==
  IF p[2][2] = 0 THEN SlotsAndBases(g.fn_returns[p[2][1]]) ELSE Range(p[3])

SitesOf(m, vs) == UNION {m[v] : v \in vs \cap DOMAIN m}

\* sdg.var_reads[pseudo] |= ... and sdg.var_writes[pseudo] |= ... for every pseudo
WithPseudos(g) ==
  LET ps == BranchPseudos(g) \cup ReturnPseudos(g)
  IN  [g EXCEPT !.var_reads = [v \in DOMAIN g.var_reads \cup ps |->
                                  IF v \in ps THEN SitesOf(g.var_reads, PseudoSources(g, v)) ELSE g.var_reads[v]],
                !.var_writes = [v \in DOMAIN g.var_writes \cup ps |->
                                  IF v \in ps THEN SitesOf(g.var_writes, PseudoSources(g, v)) ELSE g.var_writes[v]]]

\* var_to_pseudo: concrete variable -> the pseudo-variables it takes part in
var_to_pseudo_of(g) ==
  LET bps == BranchPseudos(g)
      rps == ReturnPseudos(g)
      keys == UNION {Range(p[3]) : p \in bps} \cup UNION {{BaseOf(v) : v \in PseudoSources(g, p)} : p \in rps}
  IN  [v \in keys |-> {p \in bps : v \in Range(p[3])} \cup {p \in rps : v \in {BaseOf(x) : x \in PseudoSources(g, p)}}]

\* call_edges_any: caller -> the resolved callees of its call IRs
CalleesOf(fn) ==
  UNION {{fn.nodes[i].irs[j].callee :
            j \in {k \in DOMAIN fn.nodes[i].irs : IsCall(fn.nodes[i].irs[k]) /\ fn.nodes[i].irs[k].callee /= ""}} :
         i \in DOMAIN fn.nodes}

call_edges_of(cu, g) ==
  [f \in {x \in Range(g.fn_lookup) : CalleesOf(cu.fns[x]) /= {}} |-> CalleesOf(cu.fns[f])]

\* d.get(k, set())
GetSet(m, k) == IF k \in DOMAIN m THEN m[k] ELSE {}

(***************************************************************************)
(* Sink analyses.  A budget of NoBudget is None (unbounded).               *)
(***************************************************************************)
block_reads_var(g, bid, var) ==
  LET r == IF bid \in DOMAIN g.blocks THEN g.blocks[bid].reads ELSE {}
  IN  var \in r \/ (IsMappingSlotVar(var) /\ var[2] \in r)

\* the blocks reachable_without_overwrite takes off its queue: src_bid and
\* every block reached through blocks that do not write v
RECURSIVE RwoSeen(_, _, _, _)
RwoSeen(g, v, frontier, seen) ==
  LET nxt == {n \in UNION {g.blocks[c].succ : c \in frontier} : n \notin seen /\ v \notin g.blocks[n].writes}
  IN  IF nxt = {} THEN seen ELSE RwoSeen(g, v, nxt, seen \cup nxt)

\* reachable_without_overwrite: some dequeued block has dst_bid as a successor
reachable_without_overwrite(g, src_bid, dst_bid, v) ==
  \/ src_bid = dst_bid
  \/ \E c \in RwoSeen(g, v, {src_bid}, {src_bid}) : dst_bid \in g.blocks[c].succ

\* the orders a set can be iterated in
Orderings(S) == {o \in [1..Cardinality(S) -> S] : \A i, j \in DOMAIN o : i /= j => o[i] /= o[j]}

\* sdg.blocks.get(bid, {}).get("succ", []) in the order the set yields it;
\* so is the iteration order of every successor set
SuccSeq(so, bid) == IF bid \in DOMAIN so THEN so[bid] ELSE <<>>

\* seen.add(nxt); q.append(nxt) for the successors not seen yet
RECURSIVE Fresh(_, _)
Fresh(s, seen) ==
  IF s = <<>> THEN <<>>
  ELSE IF Head(s) \in seen THEN Fresh(Tail(s), seen)
  ELSE <<Head(s)>> \o Fresh(Tail(s), seen \cup {Head(s)})

\* a loop condition that never looks at the budget
SearchCutOff_never(budget, steps) == FALSE

\* the loop condition "while q and (unlimited or steps < budget)" fails on
\* the budget: the search is cut off after `steps` visited blocks
SearchCutOff(budget, steps) == budget /= NoBudget /\ steps >= budget

\* The breadth-first loop both sink searches share: q is the FIFO queue,
\* steps the number of blocks taken off it, hits the blocks at which the
\* search answers True.
RECURSIVE Bfs(_, _, _, _, _, _)
Bfs(so, hits, budget, seen, q, steps) ==
  IF q = <<>> \/ SearchCutOff(budget, steps) THEN FALSE
  ELSE LET cur == Head(q)
           fresh == Fresh(SuccSeq(so, cur), seen)
       IN  IF cur \in hits THEN TRUE
           ELSE Bfs(so, hits, budget, seen \cup Range(fresh), Tail(q) \o fresh, steps + 1)

\* the test of lines 255-257 at a block taken off the queue
SameVarHit(cu, g, var, start_bid, cur) ==
  /\ cur \in GetSet(g.var_reads, var)
  /\ is_critical_sink_bid(cu, g, cur)
  /\ reachable_without_overwrite(g, start_bid, cur, var)

\* forward_slice_hits_sink_from without the return for a budget of 0
forward_slice_without_zero_budget_return(cu, g, so, var, start_bid, budget) ==
  IF start_bid \in GetSet(g.var_reads, var) /\ is_critical_sink_bid(cu, g, start_bid) THEN TRUE
  ELSE Bfs(so, {c \in DOMAIN g.blocks : SameVarHit(cu, g, var, start_bid, c)}, budget, {start_bid}, <<start_bid>>, 0)

\* forward_slice_hits_sink_from(var, start_bid, sdg, budget)
forward_slice_hits_sink_from(cu, g, so, var, start_bid, budget) ==
  IF budget = 0 THEN FALSE
  ELSE IF start_bid \in GetSet(g.var_reads, var) /\ is_critical_sink_bid(cu, g, start_bid) THEN TRUE
  ELSE Bfs(so, {c \in DOMAIN g.blocks : SameVarHit(cu, g, var, start_bid, c)}, budget, {start_bid}, <<start_bid>>, 0)

\* a block at which value_influence_hits_sensitive_sink looks for influence:
\* a branch predicate, a call, or a storage write / an IR with an lvalue
InfluenceSite(cu, g, c) ==
  /\ HasNode(cu, g, c)
  /\ LET node == node_of(cu, c)
     IN  \/ is_branch_node(node)
         \/ \E i \in DOMAIN node.irs : IsCall(node.irs[i])
         \/ node.variables_written /= {}
         \/ \E i \in DOMAIN node.irs : IsOperationWithLValue(node.irs[i])

\* the tests of lines 158-170 at a block taken off the queue
ValueHit(cu, g, var, start_bid, cur) ==
  /\ InfluenceSite(cu, g, cur)
  /\ block_reads_var(g, cur, var)
  /\ reachable_without_overwrite(g, start_bid, cur, var)

\* value_influence_hits_sensitive_sink(var, start_bid, sdg, budget)
value_influence_hits_sensitive_sink(cu, g, so, var, start_bid, budget) ==
  IF budget = 0 THEN FALSE
  ELSE IF is_critical_sink_bid(cu, g, start_bid) /\ block_reads_var(g, start_bid, var) THEN TRUE
  ELSE Bfs(so, {c \in DOMAIN g.blocks : ValueHit(cu, g, var, start_bid, c)}, budget, {start_bid}, <<start_bid>>, 0)

\* hits_sink(var, read_bid, sdg) under the configured policy
hits_sink(e, cu, g, so, var, read_bid) ==
  IF SINK_TEST(e) = "value" THEN value_influence_hits_sensitive_sink(cu, g, so, var, read_bid, DIVERGENCE_BUDGET(e))
  ELSE IF SINK_TEST(e) = "samevar" THEN forward_slice_hits_sink_from(cu, g, so, var, read_bid, DIVERGENCE_BUDGET(e))
  ELSE TRUE

(***************************************************************************)
(* stale_read_pairs and its helpers (utils/sdg.py).                        *)
(***************************************************************************)
is_view_only(fn) == fn.view

\* called_from_stateful(fn, sdg): a function that is not view calls fn
called_from_stateful(cu, g, fn_name) ==
  \E f \in Range(g.fn_lookup) :
     /\ ~is_view_only(cu.fns[f])
     /\ \E i \in DOMAIN cu.fns[f].nodes : \E j \in DOMAIN cu.fns[f].nodes[i].irs :
           IsCall(cu.fns[f].nodes[i].irs[j]) /\ cu.fns[f].nodes[i].irs[j].callee = fn_name

var_used(node, v) == v \in node.variables_read

\* the nodes read_affects_state takes off its queue when no node answers
RECURSIVE SonsClosure(_, _, _)
SonsClosure(fn, frontier, seen) ==
  LET nxt == UNION {fn.nodes[i].sons : i \in frontier} \ seen
  IN  IF nxt = {} THEN seen ELSE SonsClosure(fn, nxt, seen \cup nxt)

\* read_affects_state: a node reached from the read uses v again or writes
\* anything.  (A node that would stop the walk, one that writes v, has
\* already answered True.)
read_affects_state(cu, g, read_bid, v) ==
  LET fn == cu.fns[read_bid[1]]
      start == read_bid[2]
  IN  /\ start \in DOMAIN fn.nodes
      /\ \E n \in SonsClosure(fn, {start}, {start}) :
            \/ n /= start /\ var_used(fn.nodes[n], v)
            \/ fn.nodes[n].variables_written /= {}

\* slot_keys_at(sdg, bid, kind): base mapping -> keys of its slots at the block
slot_keys_at(vs) ==
  LET slots == {v \in vs : IsMappingSlotVar(v)}
  IN  [b \in {v[2] : v \in slots} |-> {v[3] : v \in {s \in slots : s[2] = b}}]

max_hops == 3

\* build_defs_map(node): lvalue text -> rvalue text of its first assignment
build_defs_map(node) ==
  LET asg == {i \in DOMAIN node.irs : IsAssignment(node.irs[i]) /\ norm_txt(Str(node.irs[i].lv)) /= ""}
      lvs == {norm_txt(Str(node.irs[i].lv)) : i \in asg}
      first(lv) == CHOOSE i \in asg : norm_txt(Str(node.irs[i].lv)) = lv
                                      /\ \A j \in asg : norm_txt(Str(node.irs[j].lv)) = lv => i <= j
  IN  [lv \in lvs |-> norm_txt(Str(node.irs[first(lv)].rv))]

\* resolve_alias(txt, defs, max_hops)
RECURSIVE ResolveFrom(_, _, _, _)
ResolveFrom(cur, defs, seen, hops) ==
  IF hops = 0 \/ cur \in seen THEN cur
  ELSE IF cur \notin DOMAIN defs \/ defs[cur] = "" THEN cur
  ELSE ResolveFrom(defs[cur], defs, seen \cup {cur}, hops - 1)

resolve_alias(txt, defs) == ResolveFrom(txt, defs, {}, max_hops)

\* is_self_copy_write(v, node)
is_self_copy_write(v, node) ==
  IF IsExternalStateVar(v) THEN FALSE
  ELSE LET x == var_key_txt(v)
           defs == build_defs_map(node)
           own == {i \in DOMAIN node.irs : IsAssignment(node.irs[i]) /\ norm_txt(Str(node.irs[i].lv)) = x}
       IN  /\ own /= {}
           /\ \A i \in own : LET rv == norm_txt(Str(node.irs[i].rv))
                             IN  rv = x \/ resolve_alias(rv, defs) = x

\* a constructor or a function whose name starts with "initialize"
IsInitWriter(fn) == fn.is_constructor \/ StartsWithInitialize(fn.name)

\* w_bid < r_bid on (function name, node id) tuples
BidLess(w_bid, r_bid) ==
  \/ FnRank(w_bid[1]) < FnRank(r_bid[1])
  \/ w_bid[1] = r_bid[1] /\ w_bid[2] < r_bid[2]

\* var_to_branchgroups.get(v) joined with the groups of the base of a slot
bg_set_of(g, v) ==
  GetSet(g.var_to_branchgroups, v) \cup (IF IsMappingSlotVar(v) THEN GetSet(g.var_to_branchgroups, v[2]) ELSE {})

\* a labelling that tells no transaction apart
PatternOf_by_order_only(w_bid, r_bid) == IF BidLess(w_bid, r_bid) THEN "stale_read" ELSE "destructive_write"

\* the label of a surviving pair, lines 542 and 555-556
PatternOf(w_bid, r_bid) ==
  IF BidLess(w_bid, r_bid)
  THEN (IF w_bid[1] /= r_bid[1] THEN "cross_tx_stale_read" ELSE "stale_read")
  ELSE "destructive_write"

\* "Same block has both read and write", line 541: if w_bid in reads
SameBlockHasBoth(g, v, w_bid, r_bid) == w_bid \in g.var_reads[v]

\* The filters of one (w_bid, r_bid) candidate of variable v, lines 527-560:
\* the pattern of the pair, "" for a pair that is skipped.
PairPattern(e, cu, g, v, w_bid, r_bid) ==
  LET r_fn == cu.fns[r_bid[1]]
      affects == bg_set_of(g, v) /= {} \/ read_affects_state(cu, g, r_bid, v) \/ called_from_stateful(cu, g, r_bid[1])
      w_fn == cu.fns[w_bid[1]]
      w_keys == slot_keys_at(g.blocks[w_bid].writes)
      r_keys == slot_keys_at(g.blocks[r_bid].reads)
      common == DOMAIN w_keys \cap DOMAIN r_keys
  IN  IF IsInitWriter(r_fn) THEN ""
      ELSE IF ~affects THEN ""
      ELSE IF SameBlockHasBoth(g, v, w_bid, r_bid) THEN ""
      ELSE IF NOOP_WRITE_FILTER(e) /\ w_bid[2] \in DOMAIN w_fn.nodes /\ is_self_copy_write(v, w_fn.nodes[w_bid[2]]) THEN ""
      ELSE IF REQUIRE_SAME_SLOT_KEY(e) /\ common /= {} /\ ~\E b \in common : w_keys[b] \cap r_keys[b] /= {} THEN ""
      ELSE PatternOf(w_bid, r_bid)

\* the two nested loops over writes and reads in the orders wo and ro;
\* yielded holds the (write function, read function) keys already yielded
RECURSIVE PairLoop(_, _, _, _, _, _, _, _)
PairLoop(ctx, v, wo, ro, i, j, yielded, out) ==
  IF i > Len(wo) THEN out
  ELSE IF j > Len(ro) THEN PairLoop(ctx, v, wo, ro, i + 1, 1, yielded, out)
  ELSE LET key == <<wo[i][1], ro[j][1]>>
           p == PairPattern(ctx.e, ctx.cu, ctx.g, v, wo[i], ro[j])
       IN  IF key \in yielded \/ p = "" THEN PairLoop(ctx, v, wo, ro, i, j + 1, yielded, out)
           ELSE PairLoop(ctx, v, wo, ro, i, j + 1, yielded \cup {key}, Append(out, <<wo[i], ro[j], v, p>>))

\* the writer blocks of v left after the constructor/initializer strip
StrippedWrites(cu, g, v) == {w \in g.var_writes[v] : ~IsInitWriter(cu.fns[w[1]])}

\* the sequences of pairs stale_read_pairs can yield for variable v, one
\* for every order in which the two sets can be iterated
PairsOfVar(e, cu, g, v) ==
  LET writes == StrippedWrites(cu, g, v)
      reads == GetSet(g.var_reads, v)
      ctx == [e |-> e, cu |-> cu, g |-> g]
  IN  IF writes = {} \/ reads = {} THEN {<<>>}
      ELSE {PairLoop(ctx, v, wo, ro, 1, 1, {}, <<>>) : wo \in Orderings(writes), ro \in Orderings(reads)}

\* bg_set |= ... (line 535) updates the groups of a slot in place once a
\* candidate of the slot reaches that line
MergeSlotGroups(cu, g, v) ==
  IF /\ IsMappingSlotVar(v)
     /\ v \in DOMAIN g.var_to_branchgroups
     /\ StrippedWrites(cu, g, v) /= {}
     /\ \E r \in GetSet(g.var_reads, v) : ~IsInitWriter(cu.fns[r[1]])
  THEN [g EXCEPT !.var_to_branchgroups[v] = bg_set_of(g, v)]
  ELSE g

(***************************************************************************)
(* _detect: preparation, pruning, bucketing and emission.                  *)
(***************************************************************************)
\* the ways to fix an iteration order for every set of the map m
RECURSIVE OrderChoices(_)
OrderChoices(m) ==
  IF DOMAIN m = {} THEN {<<>>}
  ELSE LET k == CHOOSE x \in DOMAIN m : TRUE
           rest == OrderChoices([x \in DOMAIN m \ {k} |-> m[x]])
       IN  {r @@ (k :> o) : r \in rest, o \in Orderings(m[k])}

SuccSets(g) == [b \in DOMAIN g.blocks |-> g.blocks[b].succ]

\* outer = normalize_entry_name(fn.full_name.split(".")[0])
OuterOf(e, fn) == normalize_entry_name(e, SplitDot0(fn.full_name))

PublicFns(cu, g) == {f \in Range(g.fn_lookup) : cu.fns[f].visibility \in {"public", "external"}}

\* init_latches_by_outer (lines 799-806)
InitLatchesByOuter(e, cu, g) ==
  LET withL == {f \in PublicFns(cu, g) : initializer_fn(cu, g, cu.fns[f]) /= {}}
  IN  [o \in {OuterOf(e, cu.fns[f]) : f \in withL} |->
         UNION {initializer_fn(cu, g, cu.fns[f]) : f \in {x \in withL : OuterOf(e, cu.fns[x]) = o}}]

\* post_guarded_by_latch (lines 807-813)
PostGuardedByLatch(e, cu, g, latches) ==
  LET all == UNION {latches[o] : o \in DOMAIN latches}
      outers(L) == {OuterOf(e, cu.fns[f]) : f \in {x \in PublicFns(cu, g) : fn_has_post_guard_for(cu.fns[x], L)}}
  IN  [L \in {x \in all : outers(x) /= {}} |-> outers(L)]

\* the block ids in the order build_sdg adds them
RECURSIVE BuildOrder(_, _)
BuildOrder(cu, order) ==
  IF order = <<>> THEN <<>>
  ELSE [i \in 1..Len(cu.fns[Head(order)].nodes) |-> <<Head(order), i>>] \o BuildOrder(cu, Tail(order))

\* The keys of sdg.var_writes in insertion order, as a sequence of batches:
\* the variables a block writes are inserted together, in the order the set
\* of the block yields them; the pseudo-variables follow, one by one.
RECURSIVE WriteBatches(_, _, _)
WriteBatches(g, bids, known) ==
  IF bids = <<>> THEN <<>>
  ELSE LET new == g.blocks[Head(bids)].writes \ known
       IN  <<new>> \o WriteBatches(g, Tail(bids), known \cup new)

RECURSIVE PseudoBatches(_, _, _)
PseudoBatches(g, bids, fns) ==
  IF bids /= <<>>
  THEN (IF Head(bids) \in DOMAIN g.branch_groups /\ BranchPseudo(g, Head(bids)) /= None
        THEN <<{BranchPseudo(g, Head(bids))}>> ELSE <<>>) \o PseudoBatches(g, Tail(bids), fns)
  ELSE IF fns /= <<>>
  THEN (IF Head(fns) \in DOMAIN g.fn_returns /\ ReturnPseudo(g, Head(fns)) /= None
        THEN <<{ReturnPseudo(g, Head(fns))}>> ELSE <<>>) \o PseudoBatches(g, bids, Tail(fns))
  ELSE <<>>

VarBatches(cu, g) ==
  WriteBatches(g, BuildOrder(cu, cu.order), {}) \o PseudoBatches(g, BuildOrder(cu, cu.order), cu.order)

\* the batches restricted to the keys that are left in the map
RECURSIVE LiveBatches(_, _)
LiveBatches(batches, live) ==
  IF batches = <<>> THEN <<>>
  ELSE (IF Head(batches) \cap live = {} THEN <<>> ELSE <<Head(batches) \cap live>>) \o LiveBatches(Tail(batches), live)

\* public_entries (line 894)
public_entries_of(e, cu, g) ==
  {bid \in DOMAIN g.blocks : bid[1] \in Range(g.fn_lookup) /\ is_user_callable(e, {}, cu.fns[bid[1]])}

\* the blocks reachable from the entries, the entries included
Reach(g, entries) == Forward(g.blocks, entries, entries)

\* the worklist with line 909 assigning the owner of cur to every successor
RECURSIVE Worklist_overwriting_owner(_, _, _, _, _, _)
Worklist_overwriting_owner(so, reach, rest, stack, kept, eo) ==
  IF stack /= <<>>
  THEN LET cur == stack[Len(stack)]
           popped == SubSeq(stack, 1, Len(stack) - 1)
       IN  IF cur \in kept THEN Worklist_overwriting_owner(so, reach, rest, popped, kept, eo)
           ELSE Worklist_overwriting_owner(so, reach, rest, popped \o so[cur], kept \cup {cur},
                         [b \in DOMAIN eo \cup Range(so[cur]) |-> IF b \in Range(so[cur]) THEN eo[cur] ELSE eo[b]])
  ELSE IF rest \ kept = {} THEN {eo}
  ELSE UNION {Worklist_overwriting_owner(so, reach, rest \ {b}, <<b>>, kept, eo) : b \in rest \ kept}

\* The worklist of lines 899-911.  rest holds the entries of the initial
\* list not popped yet (the list is in the order the set yields them),
\* stack what was pushed on top of them.  The result is the set of entry_of
\* maps the loop can end with.  Once every reachable block has an owner the
\* rest of the walk assigns nothing.
RECURSIVE Worklist(_, _, _, _, _, _)
Worklist(so, reach, rest, stack, kept, eo) ==
  IF DOMAIN eo = reach THEN {eo}
  ELSE IF stack /= <<>>
  THEN LET cur == stack[Len(stack)]
           popped == SubSeq(stack, 1, Len(stack) - 1)
       IN  IF cur \in kept THEN Worklist(so, reach, rest, popped, kept, eo)
           ELSE Worklist(so, reach, rest, popped \o so[cur], kept \cup {cur},
                         [b \in DOMAIN eo \cup Range(so[cur]) |-> IF b \in DOMAIN eo THEN eo[b] ELSE eo[cur]])
  ELSE IF rest \ kept = {} THEN {eo}
  ELSE UNION {Worklist(so, reach, rest \ {b}, <<b>>, kept, eo) : b \in rest \ kept}

\* filter_bid_map that drops the empty entries but intersects nothing
filter_bid_map_no_intersection(bid_map, kept) ==
  [v \in {x \in DOMAIN bid_map : bid_map[x] /= {}} |-> bid_map[v]]

\* filter_bid_map(bid_map, keep)
filter_bid_map(bid_map, kept) ==
  [v \in {x \in DOMAIN bid_map : bid_map[x] \cap kept /= {}} |-> bid_map[v] \cap kept]

\* lines 914-916
Pruned(g, kept) ==
  [g EXCEPT !.blocks = [b \in DOMAIN g.blocks \cap kept |-> g.blocks[b]],
            !.var_reads = filter_bid_map(g.var_reads, kept),
            !.var_writes = filter_bid_map(g.var_writes, kept)]

\* var_key(v)
var_key(v) ==
  IF IsMultiVarGroup(v) THEN <<"MVG", v[2]>>
  ELSE IF IsMappingSlotVar(v) THEN <<"SV", v[2]>>
  ELSE <<"SV", v>>

\* getattr(var, "base", var)
BaseOrSelf(v) == IF IsMappingSlotVar(v) THEN v[2] ELSE v

NoShape == [shared_callee |-> FALSE, reentrant |-> FALSE]
ShapeOf(shapes, key) == IF key \in DOMAIN shapes THEN shapes[key] ELSE NoShape

\* buckets[tx_id][var].append(pair): buckets is a sequence of
\* [tx_id, vars], vars a sequence of [var, pairs], both in insertion order
VarAppend(vs, var, pair) ==
  IF \E i \in DOMAIN vs : vs[i].var = var
  THEN [i \in DOMAIN vs |-> IF vs[i].var = var THEN [vs[i] EXCEPT !.pairs = Append(@, pair)] ELSE vs[i]]
  ELSE Append(vs, [var |-> var, pairs |-> <<pair>>])

\* buckets that are no mapping: every pair opens a bucket of its own
BucketAppend_unkeyed(bs, tx_id, var, pair) == Append(bs, [tx_id |-> tx_id, vars |-> <<[var |-> var, pairs |-> <<pair>>]>>])

BucketAppend(bs, tx_id, var, pair) ==
  IF \E i \in DOMAIN bs : bs[i].tx_id = tx_id
  THEN [i \in DOMAIN bs |-> IF bs[i].tx_id = tx_id THEN [bs[i] EXCEPT !.vars = VarAppend(@, var, pair)] ELSE bs[i]]
  ELSE Append(bs, [tx_id |-> tx_id, vars |-> <<[var |-> var, pairs |-> <<pair>>]>>])

\* the loop of lines 977-979 left out
FanOut_skipped(bs, tx_id, pseudos, pair) == bs

RECURSIVE FanOut(_, _, _, _)
FanOut(bs, tx_id, pseudos, pair) ==
  IF pseudos = <<>> THEN bs ELSE FanOut(BucketAppend(bs, tx_id, Head(pseudos), pair), tx_id, Tail(pseudos), pair)

\* The body of the loop of lines 923-979 for one yielded pair; st holds
\* buckets and shapes_by_key, ctx the values the loop reads.
LoopBody(ctx, st, yld) ==
  LET w_bid == yld[1]
      r_bid == yld[2]
      var == yld[3]
      w_full == w_bid[1]
      r_full == r_bid[1]
      outer_w == ctx.entry_of[w_bid]
      outer_r == ctx.entry_of[r_bid]
      tx_id == {outer_w, outer_r}
      init_Ls == GetSet(ctx.init_latches_by_outer, outer_w)
      reentrant == outer_w /= outer_r /\ (r_full \in GetSet(ctx.call_edges_any, w_full) \/ w_full \in GetSet(ctx.call_edges_any, r_full))
      pattern == IF reentrant /\ yld[4] = "stale_read" THEN "reentrant_stale_read"
                 ELSE IF reentrant /\ yld[4] = "destructive_write" THEN "reentrant_destructive_write"
                 ELSE yld[4]
      shared_callee == GetSet(ctx.call_edges_any, w_full) \cap GetSet(ctx.call_edges_any, r_full) /= {}
      key == <<tx_id, var_key(var)>>
      shape == [shared_callee |-> ShapeOf(st.shapes_by_key, key).shared_callee \/ shared_callee,
                reentrant |-> ShapeOf(st.shapes_by_key, key).reentrant \/ reentrant]
      pair == <<w_bid, r_bid, pattern>>
      pseudos == IF BaseOrSelf(var) \in DOMAIN ctx.var_to_pseudo THEN ctx.var_to_pseudo[BaseOrSelf(var)] ELSE <<>>
  IN  IF ADMIN_WRITES_BENIGN(ctx.e) /\ w_full \in ctx.ADMIN_ONLY /\ r_full \notin ctx.ADMIN_ONLY THEN st
      ELSE IF INIT_ONLY_FILTER(ctx.e) /\ BaseOrSelf(var) \in ctx.pre_prune_init_only THEN st
      ELSE IF ~hits_sink(ctx.e, ctx.cu, ctx.g, ctx.so, var, r_bid) THEN st
      ELSE IF INIT_ONLY_FILTER(ctx.e) /\ \E L \in init_Ls : outer_r \in GetSet(ctx.post_guarded_by_latch, L) THEN st
      ELSE [buckets |-> FanOut(BucketAppend(st.buckets, tx_id, var, pair), tx_id, pseudos, pair),
            shapes_by_key |-> IF shared_callee \/ reentrant
                              THEN [k \in DOMAIN st.shapes_by_key \cup {key} |-> IF k = key THEN shape ELSE st.shapes_by_key[k]]
                              ELSE st.shapes_by_key]

RECURSIVE LoopOver(_, _, _)
LoopOver(ctx, st, ylds) == IF ylds = <<>> THEN st ELSE LoopOver(ctx, LoopBody(ctx, st, Head(ylds)), Tail(ylds))

(***************************************************************************)
(* Emission (lines 981-1059).                                              *)
(***************************************************************************)
\* fn_id(fn)[0] with src(bid, sdg)[1]: the site a block is reported as.  The
\* selector is a function of the signature, the file of the contract, and
\* every node stands on the line of its number.
Site(cu, bid) ==
  [sig |-> cu.fns[bid[1]].contract_declarer \o "." \o cu.fns[bid[1]].full_name, line |-> bid[2]]

\* var_meta(v, sdg) without the storage slot numbers
var_meta(g, v) ==
  IF IsMultiVarGroup(v)
  THEN [name |-> VarName(v), kind |-> "multi_var_group", members |-> [i \in DOMAIN v[3] |-> VarName(v[3][i])],
        key |-> "", branch_groups |-> {}]
  ELSE [name |-> VarName(BaseOrSelf(v)),
        kind |-> IF IsExternalStateVar(v) THEN "external" ELSE IF IsMappingSlotVar(v) THEN "mapping_slot" ELSE "state",
        members |-> <<>>,
        key |-> IF IsMappingSlotVar(v) THEN v[3] ELSE "",
        branch_groups |-> bg_set_of(g, v)]

\* the contract a bucket variable counts for in the classification, None
\* for a variable without one
ContractOf(v) ==
  IF IsMappingSlotVar(v) THEN v[2][3]
  ELSE IF IsStateVariable(v) THEN v[3]
  ELSE "None"

bucket_class_of(vars_here) ==
  LET contracts == {ContractOf(vars_here[i]) : i \in DOMAIN vars_here} \ {"None"}
  IN  IF Len(vars_here) = 1 /\ ~IsMultiVarGroup(vars_here[1]) THEN "single_var_cross_tx"
      ELSE IF Cardinality(contracts) = 1 THEN "multi_var_intra_contract"
      ELSE "multi_var_cross_contract"

\* pairs[:3]
Sample(pairs) == SubSeq(pairs, 1, IF Len(pairs) < 3 THEN Len(pairs) ELSE 3)

\* the finding of one bucket and its deduplication key
FindingOf(e, cu, g, shapes, bucket) ==
  LET vars_here == [i \in DOMAIN bucket.vars |-> bucket.vars[i].var]
      sampled == UNION {Range(Sample(bucket.vars[i].pairs)) : i \in DOMAIN bucket.vars}
      writers == {Site(cu, p[1]) : p \in sampled}
      readers == {Site(cu, p[2]) : p \in sampled}
      op_patterns == {p[3] : p \in sampled}
      shape_of(v) == ShapeOf(shapes, <<bucket.tx_id, var_key(v)>>)
      agg_shape == [shared_callee |-> \E i \in DOMAIN vars_here : shape_of(vars_here[i]).shared_callee,
                    reentrant |-> \E i \in DOMAIN vars_here : shape_of(vars_here[i]).reentrant]
      bucket_class == bucket_class_of(vars_here)
  IN  [key |-> IF COARSE_DEDUP(e)
               THEN <<bucket_class, {var_key(vars_here[i]) : i \in DOMAIN vars_here}, bucket.tx_id, op_patterns,
                      agg_shape.reentrant, agg_shape.shared_callee>>
               ELSE <<bucket_class, {VarName(vars_here[i]) : i \in DOMAIN vars_here}, bucket.tx_id, writers, readers>>,
       finding |-> [pattern |-> bucket_class,
                    vars |-> [i \in DOMAIN vars_here |-> var_meta(g, vars_here[i])],
                    tx_set |-> bucket.tx_id,
                    writers |-> writers,
                    readers |-> readers,
                    op_patterns |-> op_patterns,
                    shape |-> agg_shape,
                    shape_by_var |-> [i \in DOMAIN vars_here |-> [var |-> var_meta(g, vars_here[i]), shape |-> shape_of(vars_here[i])]]]]

\* the loop over the buckets with the deduplication of lines 1026-1044
RECURSIVE EmitLoop(_, _, _, _, _, _, _)
EmitLoop(e, cu, g, shapes, bs, seen, out) ==
  IF bs = <<>> THEN out
  ELSE LET f == FindingOf(e, cu, g, shapes, Head(bs))
       IN  IF f.key \in seen THEN EmitLoop(e, cu, g, shapes, Tail(bs), seen, out)
           ELSE EmitLoop(e, cu, g, shapes, Tail(bs), seen \cup {f.key}, Append(out, f.finding))

\* the loop of lines 982-1044 that adds no key to seen
SeenAfter_without_add(e, cu, g, shapes, bs, seen) == seen

\* seen after the loop over the buckets: every key computed at lines
\* 1026-1042 is in it (line 1044)
RECURSIVE SeenAfter(_, _, _, _, _, _)
SeenAfter(e, cu, g, shapes, bs, seen) ==
  IF bs = <<>> THEN seen
  ELSE SeenAfter(e, cu, g, shapes, Tail(bs), seen \cup {FindingOf(e, cu, g, shapes, Head(bs)).key})

\* var_meta joins the groups of the base into the groups of a slot in place
\* (line 737), for every variable of every bucket
BucketVars(bs) == UNION {{bs[i].vars[j].var : j \in DOMAIN bs[i].vars} : i \in DOMAIN bs}
AfterVarMeta(g, bs) ==
  [g EXCEPT !.var_to_branchgroups =
     [v \in DOMAIN g.var_to_branchgroups |->
        IF IsMappingSlotVar(v) /\ v \in BucketVars(bs) THEN bg_set_of(g, v) ELSE g.var_to_branchgroups[v]]]

\* slot_map(c.name) as var_meta reaches it through slot_of for a state
\* variable and for the mapping of a slot: the names LAYOUT_CACHE gets a
\* table for (the variables carry no storage location of their own)
SlotMapNames(bs) == {ContractOf(v) : v \in {x \in BucketVars(bs) : IsStateVariable(x) \/ IsMappingSlotVar(x)}}

(***************************************************************************)
(* The traversals one step at a time: the state of a traversal is a record *)
(* of its queue or stack, its visited set and, for every block, how often  *)
(* the block was expanded (taken off and its successors iterated).         *)
(***************************************************************************)
IdleWalk ==
  [kind |-> "idle", var |-> None, start |-> None, dst |-> None, q |-> <<>>, rest |-> {}, seen |-> {},
   eo |-> <<>>, expanded |-> <<>>, steps |-> 0, inner |-> <<>>, result |-> "none"]

Bump(expanded, b) == IF b \in DOMAIN expanded THEN [expanded EXCEPT ![b] = @ + 1] ELSE expanded @@ (b :> 1)

\* lines 897-902: keep, entry_of and the stack before the loop; rest is
\* the part of list(public_entries) under the blocks pushed since
prune_begin(entries, eo) ==
  [IdleWalk EXCEPT !.kind = "prune", !.rest = entries, !.eo = eo, !.result = "running"]

\* one turn of the loop of lines 903-911 that pops cur and leaves stack
prune_step(so, w, cur, stack) ==
  IF cur \in w.seen THEN [w EXCEPT !.q = stack, !.steps = @ + 1]
  ELSE [w EXCEPT !.q = stack \o so[cur],
                 !.seen = @ \cup {cur},
                 !.eo = [b \in DOMAIN w.eo \cup Range(so[cur]) |-> IF b \in DOMAIN w.eo THEN w.eo[b] ELSE w.eo[cur]],
                 !.expanded = Bump(@, cur),
                 !.steps = @ + 1]

\* the start of reachable_without_overwrite, lines 450-452
rwo_begin(v, src_bid, dst_bid) ==
  [IdleWalk EXCEPT !.kind = "rwo", !.var = v, !.start = src_bid, !.dst = dst_bid,
                   !.q = IF src_bid = dst_bid THEN <<>> ELSE <<src_bid>>,
                   !.seen = IF src_bid = dst_bid THEN {} ELSE {src_bid},
                   !.result = IF src_bid = dst_bid THEN "true" ELSE "running"]

\* the for loop of lines 455-466 over the successors s of the block taken
\* off the queue: found, or the blocks to add to seen and to the queue
RECURSIVE RwoScan(_, _, _, _, _, _)
RwoScan(g, v, dst_bid, s, seen, add) ==
  IF s = <<>> THEN [found |-> FALSE, add |-> add]
  ELSE IF Head(s) = dst_bid THEN [found |-> TRUE, add |-> add]
  ELSE IF Head(s) \in seen \/ v \in g.blocks[Head(s)].writes THEN RwoScan(g, v, dst_bid, Tail(s), seen, add)
  ELSE RwoScan(g, v, dst_bid, Tail(s), seen \cup {Head(s)}, Append(add, Head(s)))

\* one turn of the loop of lines 453-466
rwo_step(g, so, w) ==
  IF w.q = <<>> THEN [w EXCEPT !.result = "false"]
  ELSE LET scan == RwoScan(g, w.var, w.dst, SuccSeq(so, Head(w.q)), w.seen, <<>>)
       IN  [w EXCEPT !.q = Tail(w.q) \o scan.add, !.seen = @ \cup Range(scan.add),
                     !.expanded = Bump(@, Head(w.q)), !.steps = @ + 1,
                     !.result = IF scan.found THEN "true" ELSE "running"]

\* the blocks reachable_without_overwrite takes off its queue, in order
RECURSIVE RwoTaken(_, _, _, _, _, _)
RwoTaken(g, so, v, dst_bid, q, seen) ==
  IF q = <<>> THEN <<>>
  ELSE LET scan == RwoScan(g, v, dst_bid, SuccSeq(so, Head(q)), seen, <<>>)
       IN  IF scan.found THEN <<Head(q)>>
           ELSE <<Head(q)>> \o RwoTaken(g, so, v, dst_bid, Tail(q) \o scan.add, seen \cup Range(scan.add))

\* how often a sink search calls reachable_without_overwrite at the block
\* cur: once at line 257; at lines 158-170 once for each of the three tests
\* the block meets, until a call returns True
ChecksAt(e, cu, g, var, start_bid, cur) ==
  IF SINK_TEST(e) = "value"
  THEN IF ~(HasNode(cu, g, cur) /\ block_reads_var(g, cur, var)) THEN 0
       ELSE LET node == node_of(cu, cur)
                tests == (IF is_branch_node(node) THEN 1 ELSE 0)
                         + (IF \E i \in DOMAIN node.irs : IsCall(node.irs[i]) THEN 1 ELSE 0)
                         + (IF node.variables_written /= {} \/ \E i \in DOMAIN node.irs : IsOperationWithLValue(node.irs[i])
                            THEN 1 ELSE 0)
            IN  IF tests > 0 /\ reachable_without_overwrite(g, start_bid, cur, var) THEN 1 ELSE tests
  ELSE IF cur \in GetSet(g.var_reads, var) /\ is_critical_sink_bid(cu, g, cur) THEN 1 ELSE 0

\* the blocks the calls of reachable_without_overwrite at cur take off their
\* queues
RECURSIVE Repeated(_, _)
Repeated(seq, n) == IF n = 0 THEN <<>> ELSE seq \o Repeated(seq, n - 1)

InnerAt(e, cu, g, so, var, start_bid, cur) ==
  Repeated(IF start_bid = cur THEN <<>> ELSE RwoTaken(g, so, var, cur, <<start_bid>>, {start_bid}),
           ChecksAt(e, cu, g, var, start_bid, cur))

\* the start of a sink search, lines 142-150 and 241-249
sink_begin(e, cu, g, var, start_bid) ==
  LET here == IF SINK_TEST(e) = "value"
              THEN is_critical_sink_bid(cu, g, start_bid) /\ block_reads_var(g, start_bid, var)
              ELSE start_bid \in GetSet(g.var_reads, var) /\ is_critical_sink_bid(cu, g, start_bid)
  IN  [IdleWalk EXCEPT !.kind = "sink", !.var = var, !.start = start_bid,
                       !.q = IF DIVERGENCE_BUDGET(e) = 0 \/ here THEN <<>> ELSE <<start_bid>>,
                       !.seen = IF DIVERGENCE_BUDGET(e) = 0 \/ here THEN {} ELSE {start_bid},
                       !.result = IF DIVERGENCE_BUDGET(e) = 0 THEN "false" ELSE IF here THEN "true" ELSE "running"]

\* one turn of the loop of a sink search that enqueues every successor
sink_step_without_seen_test(e, cu, g, so, w) ==
  IF w.q = <<>> \/ SearchCutOff(DIVERGENCE_BUDGET(e), w.steps) THEN [w EXCEPT !.result = "false"]
  ELSE [w EXCEPT !.q = Tail(w.q) \o SuccSeq(so, Head(w.q)),
                 !.expanded = Bump(@, Head(w.q)),
                 !.steps = @ + 1,
                 !.result = IF (IF SINK_TEST(e) = "value" THEN ValueHit(cu, g, w.var, w.start, Head(w.q))
                                ELSE SameVarHit(cu, g, w.var, w.start, Head(w.q))) THEN "true" ELSE "running"]

\* one turn of the loop of a sink search, lines 152-175 and 250-261
sink_step(e, cu, g, so, w) ==
  IF w.q = <<>> \/ SearchCutOff(DIVERGENCE_BUDGET(e), w.steps) THEN [w EXCEPT !.result = "false"]
  ELSE LET cur == Head(w.q)
           hit == IF SINK_TEST(e) = "value" THEN ValueHit(cu, g, w.var, w.start, cur)
                  ELSE SameVarHit(cu, g, w.var, w.start, cur)
           fresh == Fresh(SuccSeq(so, cur), w.seen)
           inner == w.inner \o InnerAt(e, cu, g, so, w.var, w.start, cur)
       IN  IF hit THEN [w EXCEPT !.q = Tail(w.q), !.expanded = Bump(@, cur), !.steps = @ + 1, !.inner = inner,
                                 !.result = "true"]
           ELSE [w EXCEPT !.q = Tail(w.q) \o fresh, !.seen = @ \cup Range(fresh),
                          !.expanded = Bump(@, cur), !.steps = @ + 1, !.inner = inner]

(***************************************************************************)
(* One run of InconsistentState._detect on a compilation unit.             *)
(***************************************************************************)
VARIABLES
  env,                    \* the environment of the run
  cu,                     \* the compilation unit under analysis
  pc,                     \* the stage of _detect the run is in
  sdg,                    \* the state dependency graph
  ALIAS_REG,              \* alias.ALIAS_REG, the process-wide registry
  succ_order,             \* block -> its successor set in the order the set yields it
  ADMIN_ONLY,             \* the admin-only functions
  pre_prune_init_only,    \* the initialization-only variables
  init_latches_by_outer,  \* entry -> latches its initializer flips
  post_guarded_by_latch,  \* latch -> entries guarded by it
  var_to_pseudo,          \* variable -> its pseudo-variables in the order the set yields them
  call_edges_any,         \* caller -> callees
  keep,                   \* the blocks reachable from the public entries
  entry_of,               \* block -> the entry that owns it
  pending,                \* the keys of sdg.var_writes stale_read_pairs has not reached yet
  yielded_pairs,          \* every (w_bid, r_bid, var, pattern) stale_read_pairs has yielded
  buckets,                \* tx_id -> var -> pairs
  shapes_by_key,          \* (tx_id, var_key) -> shape flags
  json_findings,          \* the findings emitted
  seen_keys,              \* seen, the deduplication keys of the findings emitted
  walk,                   \* the traversal in progress, one step at a time
  alias_log,              \* the calls of ALIAS_REG.get_or_create made directly, with the proxy each returned
  LAYOUT_CACHE,           \* the contract names slot_map has cached a slot table for
  runs,                   \* the number of runs of _detect started
  earlier_findings,       \* the findings an earlier run on the same unit and options emitted
  budget_parse            \* the text of the budget option and what _parse_divergence_budget makes of it

prep == <<ADMIN_ONLY, pre_prune_init_only, init_latches_by_outer, post_guarded_by_latch, var_to_pseudo, call_edges_any>>
run == <<keep, entry_of, pending, yielded_pairs, buckets, shapes_by_key, json_findings, seen_keys>>
vars == <<env, cu, pc, sdg, ALIAS_REG, succ_order, prep, run, walk, alias_log, LAYOUT_CACHE, runs, earlier_findings, budget_parse>>

\* the option text before the module is imported
NotParsed(text) == [text |-> text, parsed |-> FALSE, budget |-> 0, reported |-> FALSE, raised |-> FALSE]

\* the state of a process that has imported the detector and not run it
AtStart ==
  /\ pc = "build"
  /\ sdg = NewSDG
  /\ ALIAS_REG = EmptyMap
  /\ succ_order = <<>>
  /\ ADMIN_ONLY = {}
  /\ pre_prune_init_only = {}
  /\ init_latches_by_outer = <<>>
  /\ post_guarded_by_latch = <<>>
  /\ var_to_pseudo = <<>>
  /\ call_edges_any = <<>>
  /\ keep = {}
  /\ entry_of = <<>>
  /\ pending = <<>>
  /\ yielded_pairs = {}
  /\ buckets = <<>>
  /\ shapes_by_key = <<>>
  /\ json_findings = <<>>
  /\ seen_keys = {}
  /\ walk = IdleWalk
  /\ alias_log = <<>>
  /\ LAYOUT_CACHE = {}
  /\ runs = 1
  /\ earlier_findings = <<>>
  /\ budget_parse = NotParsed(UnsetText)

Init ==
  /\ env \in Envs
  /\ cu \in CompilationUnits
  /\ AtStart

\* sdg = build_sdg(self.compilation_unit), line 788
BuildSdg ==
  /\ pc = "build"
  /\ LET st == build_sdg(cu, PROMOTE_MAPPING_BASE(env), ALIAS_REG)
     IN  /\ sdg' = st.sdg
         /\ ALIAS_REG' = st.reg
         /\ succ_order' \in OrderChoices(SuccSets(st.sdg))
  /\ pc' = "prepare"
  /\ UNCHANGED <<env, cu, prep, keep, entry_of, pending, yielded_pairs, buckets, shapes_by_key, json_findings, seen_keys, walk, alias_log, LAYOUT_CACHE, runs, earlier_findings, budget_parse>>

\* lines 790-891: admin-only functions, init-only variables, latches,
\* pseudo-variables and call edges
Prepare ==
  /\ pc = "prepare"
  /\ ADMIN_ONLY' = {f \in Range(sdg.fn_lookup) : is_admin_only(cu.fns[f])}
  /\ pre_prune_init_only' = IF INIT_ONLY_FILTER(env) THEN _init_only_vars(cu, sdg) ELSE {}
  /\ init_latches_by_outer' = IF INIT_ONLY_FILTER(env) THEN InitLatchesByOuter(env, cu, sdg) ELSE <<>>
  /\ post_guarded_by_latch' = IF INIT_ONLY_FILTER(env)
                              THEN PostGuardedByLatch(env, cu, sdg, InitLatchesByOuter(env, cu, sdg)) ELSE <<>>
  /\ var_to_pseudo' \in OrderChoices(var_to_pseudo_of(sdg))
  /\ call_edges_any' = call_edges_of(cu, sdg)
  /\ sdg' = WithPseudos(sdg)
  /\ pc' = "prune"
  /\ UNCHANGED <<env, cu, ALIAS_REG, succ_order, keep, entry_of, pending, yielded_pairs, buckets, shapes_by_key, json_findings, seen_keys, walk, alias_log, LAYOUT_CACHE, runs, earlier_findings, budget_parse>>

\* lines 893-916: the worklist from the public entries and the pruning
Prune ==
  /\ pc = "prune"
  /\ LET public_entries == public_entries_of(env, cu, sdg)
         reach == Reach(sdg, public_entries)
     IN  /\ keep' = reach
         /\ entry_of' \in Worklist(succ_order, reach, public_entries, <<>>, {},
                                   [b \in public_entries |-> normalize_entry_name(env, b[1])])
         /\ sdg' = Pruned(sdg, reach)
         /\ pending' = LiveBatches(VarBatches(cu, sdg), DOMAIN filter_bid_map(sdg.var_writes, reach))
  /\ pc' = "pairs"
  /\ UNCHANGED <<env, cu, ALIAS_REG, succ_order, prep, yielded_pairs, buckets, shapes_by_key, json_findings, seen_keys, walk, alias_log, LAYOUT_CACHE, runs, earlier_findings, budget_parse>>

\* lines 923-979 for the next variable of sdg.var_writes: the pairs
\* stale_read_pairs yields for it, each taken through the body of the loop
PairsForVar ==
  /\ pc = "pairs"
  /\ pending /= <<>>
  /\ \E v \in Head(pending) :
       \E ylds \in PairsOfVar(env, cu, sdg, v) :
          LET ctx == [e |-> env, cu |-> cu, g |-> sdg, so |-> succ_order, ADMIN_ONLY |-> ADMIN_ONLY,
                      pre_prune_init_only |-> pre_prune_init_only, init_latches_by_outer |-> init_latches_by_outer,
                      post_guarded_by_latch |-> post_guarded_by_latch, var_to_pseudo |-> var_to_pseudo,
                      call_edges_any |-> call_edges_any, entry_of |-> entry_of]
              st == LoopOver(ctx, [buckets |-> buckets, shapes_by_key |-> shapes_by_key], ylds)
          IN  /\ buckets' = st.buckets
              /\ shapes_by_key' = st.shapes_by_key
              /\ yielded_pairs' = yielded_pairs \cup Range(ylds)
              /\ sdg' = MergeSlotGroups(cu, sdg, v)
              /\ pending' = IF Head(pending) = {v} THEN Tail(pending) ELSE <<Head(pending) \ {v}>> \o Tail(pending)
  /\ UNCHANGED <<env, cu, pc, ALIAS_REG, succ_order, prep, keep, entry_of, json_findings, seen_keys, walk, alias_log, LAYOUT_CACHE, runs, earlier_findings, budget_parse>>

\* lines 981-1059: one finding per bucket
Emit ==
  /\ pc = "pairs"
  /\ pending = <<>>
  /\ json_findings' = EmitLoop(env, cu, sdg, shapes_by_key, buckets, seen_keys, <<>>)
  /\ seen_keys' = SeenAfter(env, cu, sdg, shapes_by_key, buckets, seen_keys)
  /\ sdg' = AfterVarMeta(sdg, buckets)
  /\ pc' = "done"
  /\ LAYOUT_CACHE' = LAYOUT_CACHE \cup SlotMapNames(buckets)
  /\ UNCHANGED <<env, cu, ALIAS_REG, succ_order, prep, keep, entry_of, pending, yielded_pairs, buckets, shapes_by_key, walk, alias_log, runs, earlier_findings, budget_parse>>

Next == BuildSdg \/ Prepare \/ Prune \/ PairsForVar \/ Emit

Spec == Init /\ [][Next]_vars

(***************************************************************************)
(* The same run with its traversals taken one loop turn at a time, under   *)
(* an unbounded divergence budget: the worklist of the pruning, then the   *)
(* sink searches and reachable_without_overwrite on the pruned graph from  *)
(* the blocks the detector starts them at.  MaxSteps caps the loop turns   *)
(* of one traversal.                                                       *)
(***************************************************************************)
InitWalk == Init /\ DIVERGENCE_BUDGET(env) = NoBudget /\ SINK_TEST(env) \in {"samevar", "value"}

\* lines 897-902
PruneBegin ==
  /\ pc = "prune"
  /\ LET public_entries == public_entries_of(env, cu, sdg)
     IN  walk' = prune_begin(public_entries, [b \in public_entries |-> normalize_entry_name(env, b[1])])
  /\ pc' = "pruning"
  /\ UNCHANGED <<env, cu, sdg, ALIAS_REG, succ_order, prep, run, alias_log, LAYOUT_CACHE, runs, earlier_findings, budget_parse>>

\* one turn of the loop of lines 903-911
PruneStep ==
  /\ pc = "pruning"
  /\ walk.result = "running"
  /\ walk.steps < MaxSteps
  /\ IF walk.q /= <<>>
     THEN walk' = prune_step(succ_order, walk, walk.q[Len(walk.q)], SubSeq(walk.q, 1, Len(walk.q) - 1))
     ELSE IF walk.rest \ walk.seen /= {}
     THEN \E b \in walk.rest \ walk.seen : walk' = prune_step(succ_order, [walk EXCEPT !.rest = @ \ {b}], b, <<>>)
     ELSE walk' = [walk EXCEPT !.result = "done"]
  /\ UNCHANGED <<env, cu, pc, sdg, ALIAS_REG, succ_order, prep, run, alias_log, LAYOUT_CACHE, runs, earlier_findings, budget_parse>>

\* lines 914-916 once the stack is empty
PruneEnd ==
  /\ pc = "pruning"
  /\ walk.result = "done"
  /\ keep' = walk.seen
  /\ entry_of' = walk.eo
  /\ sdg' = Pruned(sdg, walk.seen)
  /\ pending' = LiveBatches(VarBatches(cu, sdg), DOMAIN filter_bid_map(sdg.var_writes, walk.seen))
  /\ pc' = "walks"
  /\ UNCHANGED <<env, cu, ALIAS_REG, succ_order, prep, yielded_pairs, buckets, shapes_by_key, json_findings, seen_keys, walk, alias_log, LAYOUT_CACHE, runs, earlier_findings, budget_parse>>

\* hits_sink(var, r_bid, sdg) is called, line 951
SinkBegin ==
  /\ pc = "walks"
  /\ walk.result /= "running"
  /\ \E var \in DOMAIN sdg.var_reads : \E r_bid \in sdg.var_reads[var] :
        walk' = sink_begin(env, cu, sdg, var, r_bid)
  /\ UNCHANGED <<env, cu, pc, sdg, ALIAS_REG, succ_order, prep, run, alias_log, LAYOUT_CACHE, runs, earlier_findings, budget_parse>>

SinkStep ==
  /\ pc = "walks"
  /\ walk.kind = "sink"
  /\ walk.result = "running"
  /\ walk.steps < MaxSteps
  /\ walk' = sink_step(env, cu, sdg, succ_order, walk)
  /\ UNCHANGED <<env, cu, pc, sdg, ALIAS_REG, succ_order, prep, run, alias_log, LAYOUT_CACHE, runs, earlier_findings, budget_parse>>

\* reachable_without_overwrite(sdg, start_bid, cur, var) is called from a
\* sink search, lines 159-169 and 257
RwoBegin ==
  /\ pc = "walks"
  /\ walk.result /= "running"
  /\ \E v \in DOMAIN sdg.var_reads : \E src_bid \in sdg.var_reads[v] :
        \E dst_bid \in {b \in DOMAIN sdg.blocks : b \in sdg.var_reads[v] \/ block_reads_var(sdg, b, v)} :
           walk' = rwo_begin(v, src_bid, dst_bid)
  /\ UNCHANGED <<env, cu, pc, sdg, ALIAS_REG, succ_order, prep, run, alias_log, LAYOUT_CACHE, runs, earlier_findings, budget_parse>>

RwoStep ==
  /\ pc = "walks"
  /\ walk.kind = "rwo"
  /\ walk.result = "running"
  /\ walk.steps < MaxSteps
  /\ walk' = rwo_step(sdg, succ_order, walk)
  /\ UNCHANGED <<env, cu, pc, sdg, ALIAS_REG, succ_order, prep, run, alias_log, LAYOUT_CACHE, runs, earlier_findings, budget_parse>>

NextWalk == BuildSdg \/ Prepare \/ PruneBegin \/ PruneStep \/ PruneEnd \/ SinkBegin \/ SinkStep \/ RwoBegin \/ RwoStep

\* a traversal that has begun is run to its end: the interpreter keeps
\* taking the turns of a loop whose condition holds
SpecWalk == InitWalk /\ [][NextWalk]_vars /\ WF_vars(PruneStep) /\ WF_vars(SinkStep) /\ WF_vars(RwoStep)

(***************************************************************************)
(* The alias registry on its own: up to MaxCalls calls of get_or_create    *)
(* with any address ("" for a missing one), selector and caller, the       *)
(* wrapper built as add_block builds it.                                   *)
(***************************************************************************)
AliasAddrs == {"", "self", "unknown", "token", "Token"}
AliasSelectors == {"balanceof", "balanceOf", "transfer"}
AliasCallers == {"deposit()", "withdraw()", "C.deposit()"}

InitAlias == Init /\ env = DefaultEnv /\ cu.order = <<"deposit()">>

\* ALIAS_REG.get_or_create(addr, sel, caller, lambda: ExternalStateVar(sel, addr))
GetOrCreate ==
  /\ Len(alias_log) < MaxCalls
  /\ \E addr \in AliasAddrs, selector \in AliasSelectors, caller \in AliasCallers :
       /\ ALIAS_REG' = RegAfter(ALIAS_REG, addr, selector, caller, ExternalStateVar(selector, addr))
       /\ alias_log' = Append(alias_log, [addr |-> addr, selector |-> selector, caller |-> caller,
                                          proxy |-> get_or_create(ALIAS_REG, addr, selector, caller, ExternalStateVar(selector, addr))])
  /\ UNCHANGED <<env, cu, pc, sdg, succ_order, prep, run, walk, LAYOUT_CACHE, runs, earlier_findings, budget_parse>>

NextAlias == GetOrCreate

SpecAlias == InitAlias /\ [][NextAlias]_vars

(***************************************************************************)
(* Several runs of _detect in one process: the locals of _detect start     *)
(* afresh, the module globals ALIAS_REG, LAYOUT_CACHE and ADMIN_ONLY and   *)
(* the options read at import keep their values.                           *)
(***************************************************************************)
RunNames == {"probe()", "credit()", "deposit()", "withdraw()", "adminSet()"}
RunUnits == {u \in CompilationUnits : Range(u.order) \subseteq RunNames}
InitRuns == Init /\ env = DefaultEnv /\ cu \in RunUnits

\* the detector is run again, on a unit of its own (lines 775-788)
Rerun ==
  /\ pc = "done"
  /\ runs < MaxRuns
  /\ runs' = runs + 1
  /\ cu' \in RunUnits
  /\ pc' = "build"
  /\ sdg' = NewSDG
  /\ succ_order' = <<>>
  /\ pre_prune_init_only' = {}
  /\ init_latches_by_outer' = <<>>
  /\ post_guarded_by_latch' = <<>>
  /\ var_to_pseudo' = <<>>
  /\ call_edges_any' = <<>>
  /\ keep' = {}
  /\ entry_of' = <<>>
  /\ pending' = <<>>
  /\ yielded_pairs' = {}
  /\ buckets' = <<>>
  /\ shapes_by_key' = <<>>
  /\ json_findings' = <<>>
  /\ seen_keys' = {}
  /\ UNCHANGED <<env, ALIAS_REG, ADMIN_ONLY, LAYOUT_CACHE, walk, alias_log, earlier_findings, budget_parse>>

NextRuns == BuildSdg \/ Prepare \/ Prune \/ PairsForVar \/ Emit \/ Rerun
SpecRuns == InitRuns /\ [][NextRuns]_vars

(***************************************************************************)
(* The same unit analysed again under the same options in a process of its *)
(* own: every object, the module globals included, starts afresh, and the  *)
(* sets iterate in an order of their own (the hash seed of the process).   *)
(***************************************************************************)
OrderNames == {"recheck()", "A()", "B()", "deposit()", "withdraw()", "check()"}
OrderUnits == {u \in CompilationUnits : Range(u.order) \subseteq OrderNames}
InitTwice == Init /\ env = DefaultEnv /\ cu \in OrderUnits

RunElsewhere ==
  /\ pc = "done"
  /\ runs < MaxRuns
  /\ runs' = runs + 1
  /\ earlier_findings' = json_findings
  /\ pc' = "build"
  /\ sdg' = NewSDG
  /\ ALIAS_REG' = EmptyMap
  /\ LAYOUT_CACHE' = {}
  /\ succ_order' = <<>>
  /\ ADMIN_ONLY' = {}
  /\ pre_prune_init_only' = {}
  /\ init_latches_by_outer' = <<>>
  /\ post_guarded_by_latch' = <<>>
  /\ var_to_pseudo' = <<>>
  /\ call_edges_any' = <<>>
  /\ keep' = {}
  /\ entry_of' = <<>>
  /\ pending' = <<>>
  /\ yielded_pairs' = {}
  /\ buckets' = <<>>
  /\ shapes_by_key' = <<>>
  /\ json_findings' = <<>>
  /\ seen_keys' = {}
  /\ UNCHANGED <<env, cu, walk, alias_log, budget_parse>>

NextTwice == BuildSdg \/ Prepare \/ Prune \/ PairsForVar \/ Emit \/ RunElsewhere
SpecTwice == InitTwice /\ [][NextTwice]_vars

(***************************************************************************)
(* The budget option alone: the text found in the environment and the      *)
(* call of _parse_divergence_budget at import (line 57).                   *)
(***************************************************************************)
BudgetAlphabet == {" ", "-", "+", "_", "0", "1", "7", "i", "n", "f", "I", "x", "."}
RECURSIVE TextsUpTo(_)
TextsUpTo(n) ==
  IF n = 0 THEN {<<>>}
  ELSE LET shorter == TextsUpTo(n - 1)
       IN  shorter \cup {Append(t, c) : t \in {x \in shorter : Len(x) = n - 1}, c \in BudgetAlphabet}
LongerTexts ==
  {UnsetText, <<"1", "0", "0", "0">>, <<"1", "_", "0", "0", "0">>, <<"-", "1", "0", "0", "0">>, <<"9", "9", "9", "9", "9">>,
   <<"i", "n", "f", "i", "n", "i", "t", "e">>, <<"I", "n", "f", "i", "n", "i", "t", "e">>,
   <<"u", "n", "l", "i", "m", "i", "t", "e", "d">>, <<" ", "U", "N", "L", "I", "M", "I", "T", "E", "D", " ">>,
   <<"u", "n", "b", "o", "u", "n", "d", "e", "d">>, <<"u", "n", "b", "o", "u", "n", "d">>, <<"i", "n", "f", "i", "n", "i", "t", "y">>,
   <<"1", "e", "3">>, <<"0", "x", "1", "0">>, <<"-", " ", "1", "0">>, <<" ", "-", "1", "0", " ">>}
BudgetTextsChecked == TextsUpTo(MaxText) \cup LongerTexts

InitBudget == Init /\ env = DefaultEnv /\ cu.order = <<"deposit()">>

ParseBudget ==
  /\ ~budget_parse.parsed
  /\ \E text \in BudgetTextsChecked :
        LET r == parse_budget_text(text)
        IN  budget_parse' = [text |-> text, parsed |-> TRUE, budget |-> r.budget, reported |-> r.reported, raised |-> r.raised]
  /\ UNCHANGED <<env, cu, pc, sdg, ALIAS_REG, succ_order, prep, run, walk, alias_log, LAYOUT_CACHE, runs, earlier_findings>>

NextBudget == ParseBudget
SpecBudget == InitBudget /\ [][NextBudget]_vars

(***************************************************************************)
(* The traversals one loop turn at a time under a finite divergence budget *)
(* of at least 1, for either sink policy.                                  *)
(***************************************************************************)
SearchNames == {"fork()", "recheck()", "deposit()", "withdraw()", "check()", "loop()", "join()", "setup()"}
SearchOrders ==
  {o \in UNION {[1..n -> SearchNames] : n \in 1..MaxFns} : \A i, j \in DOMAIN o : i /= j => o[i] /= o[j]}
SearchUnits == UNION {CUsOf(o) : o \in SearchOrders}
SearchEnvs == {[DefaultEnv EXCEPT !.SINK_TEST = s, !.DIVERGENCE_BUDGET = b] : s \in {"samevar", "value"}, b \in {"1", "2", "5"}}

InitSearch ==
  /\ env \in SearchEnvs
  /\ cu \in SearchUnits
  /\ AtStart

SpecSearch == InitSearch /\ [][NextWalk]_vars

(***************************************************************************)
(* The claims.                                                             *)
(***************************************************************************)
\* the graph build_sdg returns for the unit, before any pruning
UnprunedSdg == build_sdg(cu, PROMOTE_MAPPING_BASE(env), EmptyMap).sdg

\* the blocks reachable along successor edges from the blocks of the
\* user-callable entry functions
ReachableFromEntries == Reach(UnprunedSdg, public_entries_of(env, cu, UnprunedSdg))

BucketPairs == UNION {UNION {Range(buckets[i].vars[j].pairs) : j \in DOMAIN buckets[i].vars} : i \in DOMAIN buckets}

\* C1: once pruning is done, every block left in the read/write maps, the
\* writer and the reader of every pair placed in a bucket (for a concrete
\* variable or, by fan-out, for a group) and every site of every emitted
\* finding is a block reachable along successor edges from the blocks of
\* the user-callable entry functions.
C1_SitesReachableFromEntries ==
  pc \in {"pairs", "done"} =>
    LET reach == ReachableFromEntries
    IN  /\ DOMAIN sdg.blocks \subseteq reach
        /\ \A v \in DOMAIN sdg.var_writes : sdg.var_writes[v] \subseteq reach
        /\ \A v \in DOMAIN sdg.var_reads : sdg.var_reads[v] \subseteq reach
        /\ \A p \in BucketPairs : p[1] \in reach /\ p[2] \in reach
        /\ \A i \in DOMAIN json_findings :
              json_findings[i].writers \cup json_findings[i].readers \subseteq {Site(cu, b) : b \in reach}

\* a finding was emitted, for a variable that a discarded block writes too
C1_Witness ==
  /\ pc = "done"
  /\ \E i \in DOMAIN json_findings : \E b \in DOMAIN UnprunedSdg.blocks \ ReachableFromEntries :
        \E v \in UnprunedSdg.blocks[b].writes : \E j \in DOMAIN json_findings[i].vars :
           json_findings[i].vars[j].name = VarName(v)

Findings == Range(json_findings)

\* the functions a finding names as writers
WriterFnsOf(f) == {g \in DOMAIN cu.fns : \E b \in {<<g, i>> : i \in DOMAIN cu.fns[g].nodes} : Site(cu, b) \in f.writers}

\* C2: no pair yielded by stale_read_pairs and no emitted finding has as
\* its writer a block of a constructor or of a recognized initializer
\* function (named init/initialize*/setup/set_up/bootstrap or carrying an
\* initializer modifier), also when a user-callable entry calls it.
C2_NoCreationPhaseWriter ==
  /\ \A y \in yielded_pairs : ~is_creation_phase(cu.fns[y[1][1]]) /\ ~StartsWithInitialize(cu.fns[y[1][1]].name)
  /\ \A f \in Findings : \A g \in WriterFnsOf(f) : ~is_creation_phase(cu.fns[g]) /\ ~StartsWithInitialize(cu.fns[g].name)

\* node holds exactly the self-copy of variable v through d local aliases
SelfCopyChain(node, v, d) ==
  \E i \in DOMAIN node.irs :
     LET t == node.irs[i].lv
     IN  /\ t = v \/ (is_index_var(t) /\ mk_slot(t[2], t[3]) = v)
         /\ node.irs = CopyIrs(t, d)

\* C3: with NOOP_WRITE_FILTER on, a block whose only assignment to x
\* resolves to x through a chain of d local aliases of the same node,
\* 0 <= d <= max_hops, is never yielded as a writer for x.
C3_SelfCopyNeverWriter ==
  \A y \in yielded_pairs :
     NOOP_WRITE_FILTER(env) => \A d \in 0..max_hops : ~SelfCopyChain(node_of(cu, y[1]), y[3], d)

\* C4: under the default configuration no yielded pair has a write block
\* that writes only slot m[a] of a mapping m and a read block that reads
\* only slot m[b] of m with a /= b, whatever variable the pair is
\* enumerated for and whatever other mappings the blocks touch.
C4_DistinctKeysNeverPair ==
  env = DefaultEnv =>
    \A y \in yielded_pairs :
       LET w_keys == slot_keys_at(UnprunedSdg.blocks[y[1]].writes)
           r_keys == slot_keys_at(UnprunedSdg.blocks[y[2]].reads)
       IN  \A m \in DOMAIN w_keys \cap DOMAIN r_keys :
              ~(Cardinality(w_keys[m]) = 1 /\ Cardinality(r_keys[m]) = 1 /\ w_keys[m] /= r_keys[m])

ZeroBudgetPolicy == DIVERGENCE_BUDGET(env) = 0 /\ SINK_TEST(env) \in {"samevar", "value"}

\* C5: with a divergence budget of 0 and the same-variable or the
\* value-influence policy, hits_sink answers False for every variable and
\* read block, no pair is bucketed and no finding is emitted.
C5_ZeroBudgetNoFindings ==
  (ZeroBudgetPolicy /\ pc \in {"pairs", "done"}) =>
    /\ \A v \in DOMAIN sdg.var_reads : \A r \in sdg.var_reads[v] : ~hits_sink(env, cu, sdg, succ_order, v, r)
    /\ buckets = <<>>
    /\ json_findings = <<>>

\* a run with budget 0 in which stale_read_pairs yielded a pair whose read
\* block is itself a branch that reads the variable
C5_Witness ==
  /\ ZeroBudgetPolicy
  /\ pc = "done"
  /\ \E y \in yielded_pairs : is_critical_sink_bid(cu, sdg, y[2]) /\ block_reads_var(sdg, y[2], y[3])

\* a block of the graph that lies on a cycle of successor edges
OnCycle(b) == b \in DOMAIN sdg.blocks /\ b \in Reach(sdg, sdg.blocks[b].succ)

\* a traversal taken one step at a time agrees with the traversal taken at once
WalkAgrees ==
  /\ (walk.kind = "prune" /\ walk.result = "done") =>
        walk.seen = Reach(sdg, public_entries_of(env, cu, sdg))
  /\ (walk.kind = "sink" /\ walk.result \in {"true", "false"}) =>
        (walk.result = "true") = hits_sink(env, cu, sdg, succ_order, walk.var, walk.start)
  /\ (walk.kind = "rwo" /\ walk.result \in {"true", "false"}) =>
        (walk.result = "true") = reachable_without_overwrite(sdg, walk.start, walk.dst, walk.var)

\* C6: with an unbounded budget every traversal (the pruning worklist, the
\* sink search of the policy in force, reachable_without_overwrite) takes
\* each block off its queue or stack and iterates its successors at most
\* once, and a traversal that is running comes to an end, on every graph
\* including those with loop back-edges and call/return cycles.
C6_TraversalsTerminate ==
  /\ [](\A b \in DOMAIN walk.expanded : walk.expanded[b] <= 1)
  /\ (walk.result = "running") ~> (walk.result /= "running")

\* a sink search under an unbounded budget that has ended after taking a
\* block on a cycle off its queue
C6_Witness ==
  /\ DIVERGENCE_BUDGET(env) = NoBudget
  /\ walk.kind = "sink"
  /\ walk.result \in {"true", "false"}
  /\ \E b \in DOMAIN walk.expanded : OnCycle(b)

\* the pruning worklist has ended on a graph with a cycle among the kept blocks
C6_PruneOnCycle == walk.kind = "prune" /\ walk.result = "done" /\ \E b \in DOMAIN walk.expanded : OnCycle(b)

\* reachable_without_overwrite has ended after expanding a block on a cycle
C6_RwoOnCycle == walk.kind = "rwo" /\ walk.result \in {"true", "false"} /\ \E b \in DOMAIN walk.expanded : OnCycle(b)

\* the scenario of C7: balance is written in public deposit() and read in
\* a require of public withdraw(), neither admin-guarded, default options
C7_Scenario ==
  /\ env = DefaultEnv
  /\ DOMAIN cu.fns = {"deposit()", "withdraw()"}
  /\ \A f \in DOMAIN cu.fns : cu.fns[f].visibility = "public" /\ ~is_admin_only(cu.fns[f])
  /\ \E i \in DOMAIN cu.fns["deposit()"].nodes : SV("balance", "C") \in cu.fns["deposit()"].nodes[i].variables_written
  /\ \E i \in DOMAIN cu.fns["withdraw()"].nodes :
        /\ cu.fns["withdraw()"].nodes[i].type = "REQUIRE"
        /\ SV("balance", "C") \in cu.fns["withdraw()"].nodes[i].variables_read

\* C7: in that scenario the detector emits exactly one finding, of class
\* single_var_cross_tx, with transaction set {deposit, withdraw}.
C7_DepositWithdrawOneFinding ==
  (C7_Scenario /\ pc = "done") =>
    /\ Len(json_findings) = 1
    /\ json_findings[1].pattern = "single_var_cross_tx"
    /\ json_findings[1].tx_set = {"deposit()", "withdraw()"}

\* v is written by a public function that is not admin-guarded
PublicWritable(v) ==
  \E f \in DOMAIN cu.fns :
     /\ cu.fns[f].visibility = "public" /\ ~is_admin_only(cu.fns[f]) /\ ~is_creation_phase(cu.fns[f])
     /\ \E i \in DOMAIN cu.fns[f].nodes : v \in cu.fns[f].nodes[i].variables_written

\* the scenario of C8: a branch predicate if (a > 0 && b > 0) over a and b,
\* each written by a public unguarded function
C8_Scenario ==
  /\ env = DefaultEnv
  /\ \E f \in DOMAIN cu.fns : \E i \in DOMAIN cu.fns[f].nodes :
        /\ cu.fns[f].nodes[i].type = "IF"
        /\ cu.fns[f].nodes[i].variables_read = {SV("a", "C"), SV("b", "C")}
  /\ PublicWritable(SV("a", "C"))
  /\ PublicWritable(SV("b", "C"))

\* C8: in that scenario a finding of a multi_var class is emitted that
\* holds a variable of kind multi_var_group with exactly the members a, b.
C8_BranchGroupReported ==
  (C8_Scenario /\ pc = "done") =>
    \E f \in Findings :
       /\ f.pattern \in {"multi_var_intra_contract", "multi_var_cross_contract"}
       /\ \E j \in DOMAIN f.vars : f.vars[j].kind = "multi_var_group" /\ f.vars[j].members = <<"a", "b">>

\* the scenario of C9: entries A and B call each other, one writes a
\* variable the other reads
C9_Scenario ==
  /\ env = DefaultEnv
  /\ DOMAIN cu.fns = {"A()", "B()"}
  /\ "B()" \in CalleesOf(cu.fns["A()"])
  /\ "A()" \in CalleesOf(cu.fns["B()"])

\* C9: in that scenario every pair between the two functions carries a
\* reentrant_* label, whichever of them holds the write, and the finding
\* has its reentrant flag set.
C9_MutualCallsEscalate ==
  (C9_Scenario /\ pc = "done") =>
    /\ \A p \in BucketPairs : p[1][1] /= p[2][1] => p[3] \in {"reentrant_stale_read", "reentrant_destructive_write"}
    /\ \A f \in Findings : f.tx_set = {"A()", "B()"} => f.shape.reentrant

\* the scenario of C10: with initializer filtering on, initialize() is
\* guarded by require(!initialized), sets initialized and nothing resets
\* it; v is written in initialize() only
InitializeOnly(v) ==
  /\ INIT_ONLY_FILTER(env)
  /\ "initialize()" \in DOMAIN cu.fns
  /\ \E i \in DOMAIN cu.fns["initialize()"].nodes :
        cu.fns["initialize()"].nodes[i].type = "REQUIRE" /\ cu.fns["initialize()"].nodes[i].expression = "require(bool)(! initialized)"
  /\ \A f \in DOMAIN cu.fns : \A i \in DOMAIN cu.fns[f].nodes :
        /\ v \in cu.fns[f].nodes[i].variables_written => f = "initialize()"
        /\ SV("initialized", "C") \in cu.fns[f].nodes[i].variables_written => f = "initialize()"
  /\ \E i \in DOMAIN cu.fns["initialize()"].nodes : v \in cu.fns["initialize()"].nodes[i].variables_written

\* C10: in that scenario the variable appears in no finding, neither as a
\* concrete variable nor as a member of a reported group.
C10_InitOnlyVariableNeverReported ==
  \A v \in {SV("a", "C")} :
     (InitializeOnly(v) /\ pc = "done") =>
        \A f \in Findings : \A j \in DOMAIN f.vars :
           f.vars[j].name /= VarName(v) /\ VarName(v) \notin Range(f.vars[j].members)

C11_WitnessCoarse == pc = "done" /\ COARSE_DEDUP(env) /\ Len(buckets) >= 2 /\ Len(json_findings) >= 2

\* C12: calls of get_or_create with identical (address, selector, caller)
\* return the same proxy, the proxy a call returned is still the one its
\* key is bound to, and no step removes a key of the registry or binds it
\* to another proxy.
C12_RegistryIdempotentMonotone ==
  /\ [](\A i, j \in DOMAIN alias_log :
          (alias_log[i].addr = alias_log[j].addr /\ alias_log[i].selector = alias_log[j].selector
             /\ alias_log[i].caller = alias_log[j].caller) => alias_log[i].proxy = alias_log[j].proxy)
  /\ [](\A i \in DOMAIN alias_log :
          LET k == AliasKey(alias_log[i].addr, alias_log[i].selector, alias_log[i].caller)
          IN  k \in DOMAIN ALIAS_REG /\ ALIAS_REG[k] = alias_log[i].proxy)
  /\ [][\A k \in DOMAIN ALIAS_REG : k \in DOMAIN ALIAS_REG' /\ ALIAS_REG'[k] = ALIAS_REG[k]]_vars

\* a call repeated with identical inputs after a call in between that
\* reached the same key with another spelling of the address
C12_Witness ==
  /\ Len(alias_log) = 3
  /\ alias_log[1].addr = alias_log[3].addr /\ alias_log[1].selector = alias_log[3].selector
  /\ alias_log[1].caller = alias_log[3].caller
  /\ alias_log[2].addr /= alias_log[1].addr
  /\ AliasKey(alias_log[2].addr, alias_log[2].selector, alias_log[2].caller)
       = AliasKey(alias_log[1].addr, alias_log[1].selector, alias_log[1].caller)
  /\ Cardinality(DOMAIN ALIAS_REG) = 1

\* the canonical (address, selector) of a call, a missing address mapped to D
ProxyCanon(D, c) == <<Lower(AddrOrDefault(c.addr, D)), Lower(c.selector)>>

\* C13: there is one default for a missing address (the one of the key or
\* the one of the proxy) under which any two calls of get_or_create return
\* equal proxies exactly when their lower-cased addresses and lower-cased
\* selectors agree.
C13_ProxiesEqualIffCanonAgree ==
  \E D \in {"self", "unknown"} :
     \A i, j \in DOMAIN alias_log :
        (alias_log[i].proxy = alias_log[j].proxy) <=> (ProxyCanon(D, alias_log[i]) = ProxyCanon(D, alias_log[j]))

\* the blocks of the user-callable functions with the normalized name nm
EntryBlocksNamed(nm) ==
  {b \in DOMAIN sdg.blocks : b[1] \in Range(sdg.fn_lookup) /\ is_user_callable(env, ADMIN_ONLY, cu.fns[b[1]])
                               /\ normalize_entry_name(env, b[1]) = nm}

\* C14: after pruning every kept block has an owner, the owner is the
\* normalized name of a user-callable function from one of whose blocks
\* the block is reachable along successor edges, and a block of a
\* user-callable function is owned by its own function.
C14_EveryKeptBlockOwned ==
  pc \in {"pairs", "done"} =>
    /\ DOMAIN sdg.blocks = keep
    /\ \A b \in keep :
         /\ b \in DOMAIN entry_of
         /\ LET from == EntryBlocksNamed(entry_of[b]) IN from /= {} /\ b \in Reach(sdg, from)
         /\ (b[1] \in Range(sdg.fn_lookup) /\ is_user_callable(env, ADMIN_ONLY, cu.fns[b[1]]))
              => entry_of[b] = normalize_entry_name(env, b[1])

\* a pruned graph in which a block of one user-callable function is a
\* successor of a block of another user-callable function (a call edge)
C14_Witness ==
  /\ pc = "pairs"
  /\ \E b, c \in keep :
       /\ b[1] /= c[1] /\ c \in sdg.blocks[b].succ
       /\ is_user_callable(env, ADMIN_ONLY, cu.fns[b[1]]) /\ is_user_callable(env, ADMIN_ONLY, cu.fns[c[1]])
       /\ entry_of[c] /= entry_of[b]

\* a pruned graph that keeps a block of a function that is no entry
C14_WitnessInherited ==
  pc = "pairs" /\ \E b \in keep : ~is_user_callable(env, ADMIN_ONLY, cu.fns[b[1]]) /\ b \in DOMAIN entry_of

(***************************************************************************)
(* C15: a block is a public entry if and only if its function is public    *)
(* or external, is not a constructor, is not an initializer by name or by  *)
(* initializer modifier, is not on the deny list, and is on the allow      *)
(* list, or is not owner/role/governance-guarded, or role-gated inclusion  *)
(* is switched on; the deny list wins over the allow list and the allow    *)
(* list never turns a constructor or initializer into an entry.            *)
(***************************************************************************)
InitializerByName(fn) ==
  StartsWithInitialize(fn.name) \/ Lower(fn.name) \in InitLikeNames \/ StartsWithInitialize(Lower(fn.name))
InitializerByModifier(fn) == \E m \in fn.modifiers : MentionsInitializer(Lower(m))
EntryAsStated(e, fn) ==
  /\ fn.visibility \in {"public", "external"}
  /\ ~fn.is_constructor
  /\ ~InitializerByName(fn)
  /\ ~InitializerByModifier(fn)
  /\ SplitDot0(fn.full_name) \notin e.USER_CALLABLE_DENY
  /\ \/ SplitDot0(fn.full_name) \in e.USER_CALLABLE_ALWAYS
     \/ ~is_admin_only(fn)
     \/ USER_CALLABLE_INCLUDE_ROLE_GATED(e)
C15_EntryIffStated ==
  \A bid \in DOMAIN sdg.blocks :
     bid[1] \in Range(sdg.fn_lookup) =>
        (bid \in public_entries_of(env, cu, sdg) <=> EntryAsStated(env, cu.fns[bid[1]]))

(***************************************************************************)
(* C16: with an unbounded budget forward_slice_hits_sink_from(var,         *)
(* read_block) is true if and only if some block c reachable from          *)
(* read_block (c may be read_block) reads var, is a critical sink, and is  *)
(* the end of a path from read_block on which no block strictly between    *)
(* the two writes var; with a finite budget it is true only if such a      *)
(* block exists.                                                           *)
(***************************************************************************)
\* some path from cur to dst over blocks not yet visited has no block of W before dst
RECURSIVE CleanPath(_, _, _, _, _)
CleanPath(g, W, cur, dst, visited) ==
  \/ cur = dst
  \/ \E n \in (IF cur \in DOMAIN g.blocks THEN g.blocks[cur].succ ELSE {}) \ visited :
        \/ n = dst
        \/ n \notin W /\ n \in DOMAIN g.blocks /\ CleanPath(g, W, n, dst, visited \cup {n})
\* the blocks the variable's write index lists
WritersOf(g, var) == GetSet(g.var_writes, var)
QualifyingSink(g, var, read_block) ==
  \E c \in DOMAIN g.blocks :
     /\ c \in GetSet(g.var_reads, var)
     /\ is_critical_sink_bid(cu, g, c)
     /\ CleanPath(g, WritersOf(g, var), read_block, c, {read_block})
FiniteBudgets == {1, 2, 3}
C16_SameVarSliceIffQualifyingSink ==
  \A var \in DOMAIN sdg.var_reads \cup DOMAIN sdg.var_writes : \A read_block \in DOMAIN sdg.blocks :
     /\ forward_slice_hits_sink_from(cu, sdg, succ_order, var, read_block, NoBudget)
          <=> QualifyingSink(sdg, var, read_block)
     /\ \A budget \in FiniteBudgets :
          forward_slice_hits_sink_from(cu, sdg, succ_order, var, read_block, budget)
             => QualifyingSink(sdg, var, read_block)
\* the same statement for state variables, mapping slots and external
\* proxies alone, whose writes the blocks' own write sets list
SameVarSliceOnConcreteVariables ==
  \A var \in DOMAIN sdg.var_reads \cup DOMAIN sdg.var_writes : \A read_block \in DOMAIN sdg.blocks :
     ~IsMultiVarGroup(var) =>
        /\ forward_slice_hits_sink_from(cu, sdg, succ_order, var, read_block, NoBudget)
             <=> QualifyingSink(sdg, var, read_block)
        /\ \A budget \in FiniteBudgets :
             forward_slice_hits_sink_from(cu, sdg, succ_order, var, read_block, budget)
                => QualifyingSink(sdg, var, read_block)

(***************************************************************************)
(* C17: when the budget option is unset the sink search is unbounded: it   *)
(* is not cut off after any fixed number of visited blocks.                *)
(***************************************************************************)
VisitCounts == {0, 1, 10, 100, 999, 1000, 1001, 100000}
C17_UnsetBudgetUnbounded ==
  env.DIVERGENCE_BUDGET = "UNSET" =>
     \A steps \in VisitCounts : ~SearchCutOff(DIVERGENCE_BUDGET(env), steps)
\* C17 as amended: with the option unset the search is cut off after the
\* default of 1000 visited blocks and not before, so on a graph of fewer
\* blocks it answers as the unbounded search does; the search is unbounded
\* for the option values inf, unbounded and a negative number.
C17_UnsetBudgetIsDefault ==
  /\ env.DIVERGENCE_BUDGET = "UNSET" =>
       /\ \A steps \in VisitCounts : SearchCutOff(DIVERGENCE_BUDGET(env), steps) <=> steps >= DefaultBudget
       /\ Cardinality(DOMAIN sdg.blocks) < DefaultBudget =>
            \A var \in DOMAIN sdg.var_reads : \A read_block \in sdg.var_reads[var] :
               /\ forward_slice_hits_sink_from(cu, sdg, succ_order, var, read_block, DIVERGENCE_BUDGET(env))
                    = forward_slice_hits_sink_from(cu, sdg, succ_order, var, read_block, NoBudget)
               /\ value_influence_hits_sensitive_sink(cu, sdg, succ_order, var, read_block, DIVERGENCE_BUDGET(env))
                    = value_influence_hits_sensitive_sink(cu, sdg, succ_order, var, read_block, NoBudget)
  /\ env.DIVERGENCE_BUDGET \in {"inf", "unbounded", "-1"} =>
       \A steps \in VisitCounts : ~SearchCutOff(DIVERGENCE_BUDGET(env), steps)
\* a finished run with the option unset in which the same-variable search
\* found a sink and a finding was emitted
C17_Witness ==
  /\ pc = "done" /\ env.DIVERGENCE_BUDGET = "UNSET" /\ SINK_TEST(env) = "samevar"
  /\ json_findings /= <<>>
  /\ \E var \in DOMAIN sdg.var_reads : \E read_block \in sdg.var_reads[var] :
        /\ ~is_critical_sink_bid(cu, sdg, read_block)
        /\ forward_slice_hits_sink_from(cu, sdg, succ_order, var, read_block, DIVERGENCE_BUDGET(env))

(***************************************************************************)
(* C18: every emitted finding is classified single_var_cross_tx exactly    *)
(* when its bucket holds exactly one variable and that variable is not a   *)
(* group; otherwise multi_var_intra_contract exactly when all its          *)
(* variables are declared by one contract, and multi_var_cross_contract    *)
(* only when it holds at least 2 variables declared by more than one       *)
(* contract; also for a bucket that holds only a group or only proxies.    *)
(***************************************************************************)
\* the contracts that declare a bucket variable: of a group those of its
\* members, of a slot that of its mapping, none for an external proxy
DeclaringContracts(v) ==
  IF IsMultiVarGroup(v) THEN {v[3][i][3] : i \in DOMAIN v[3]}
  ELSE IF IsMappingSlotVar(v) THEN {v[2][3]}
  ELSE IF IsStateVariable(v) THEN {v[3]}
  ELSE {}
ClassifiedAsStated(pattern, vars_here) ==
  LET declaring == UNION {DeclaringContracts(vars_here[i]) : i \in DOMAIN vars_here}
      single == Len(vars_here) = 1 /\ ~IsMultiVarGroup(vars_here[1])
  IN  /\ pattern = "single_var_cross_tx" <=> single
      /\ ~single => (pattern = "multi_var_intra_contract" <=> Cardinality(declaring) = 1)
      /\ pattern = "multi_var_cross_contract" => Len(vars_here) >= 2 /\ Cardinality(declaring) > 1
\* the emitted findings follow the buckets one to one when no key was seen before
C18_ClassificationAsStated ==
  (pc = "done" /\ Len(json_findings) = Len(buckets)) =>
     \A i \in DOMAIN json_findings :
        ClassifiedAsStated(json_findings[i].pattern, [j \in DOMAIN buckets[i].vars |-> buckets[i].vars[j].var])

(***************************************************************************)
(* C19: group fan-out.  For every surviving pair on a concrete variable v  *)
(* (or on a slot of mapping v) in transaction set T and every group g that *)
(* has v as a member, the same pair is also recorded under g in the bucket *)
(* of T, so the finding for T lists g among its variables; and a group is  *)
(* added to a bucket by fan-out only if one of its members has a surviving *)
(* pair in that transaction set.                                           *)
(***************************************************************************)
\* the groups the run created
GroupsOf(g) == {v \in DOMAIN g.var_reads \cup DOMAIN g.var_writes : IsMultiVarGroup(v)}
MembersOf(grp) == Range(grp[3])
\* the pairs a bucket records under a variable
PairsUnder(bucket, var) ==
  UNION {Range(bucket.vars[j].pairs) : j \in {k \in DOMAIN bucket.vars : bucket.vars[k].var = var}}
BucketVarsOf(bucket) == {bucket.vars[j].var : j \in DOMAIN bucket.vars}
FannedOut(bucket) ==
  \A v \in BucketVarsOf(bucket) : ~IsMultiVarGroup(v) =>
     \A grp \in GroupsOf(sdg) : BaseOrSelf(v) \in MembersOf(grp) =>
        /\ grp \in BucketVarsOf(bucket)
        /\ PairsUnder(bucket, v) \subseteq PairsUnder(bucket, grp)
OnlyMembersFanOut(bucket) ==
  \A grp \in BucketVarsOf(bucket) : IsMultiVarGroup(grp) =>
     \A p \in PairsUnder(bucket, grp) :
        \/ \E y \in yielded_pairs : y[3] = grp /\ y[1] = p[1] /\ y[2] = p[2]
        \/ \E v \in BucketVarsOf(bucket) :
              ~IsMultiVarGroup(v) /\ BaseOrSelf(v) \in MembersOf(grp) /\ p \in PairsUnder(bucket, v)
C19_GroupFanOut ==
  /\ pc \in {"pairs", "done"} =>
       \A i \in DOMAIN buckets : FannedOut(buckets[i]) /\ OnlyMembersFanOut(buckets[i])
  /\ (pc = "done" /\ Len(json_findings) = Len(buckets)) =>
       \A i \in DOMAIN buckets : \A grp \in BucketVarsOf(buckets[i]) : IsMultiVarGroup(grp) =>
          \E j \in DOMAIN json_findings[i].vars :
             /\ json_findings[i].vars[j].kind = "multi_var_group"
             /\ json_findings[i].vars[j].name = VarName(grp)
             /\ json_findings[i].tx_set = buckets[i].tx_id
\* a finished run whose bucket holds a pair on a state variable, a group
\* with that variable as a member under which the pair is recorded too,
\* and no pair the group was yielded by itself
C19_Witness ==
  /\ pc = "done"
  /\ \E i \in DOMAIN buckets : \E v, grp \in BucketVarsOf(buckets[i]) :
        /\ IsStateVariable(v) /\ IsMultiVarGroup(grp) /\ v \in MembersOf(grp)
        /\ PairsUnder(buckets[i], v) /= {}
        /\ PairsUnder(buckets[i], v) \subseteq PairsUnder(buckets[i], grp)
        /\ ~\E y \in yielded_pairs : y[3] = grp
        /\ \E j \in DOMAIN json_findings[i].vars : json_findings[i].vars[j].kind = "multi_var_group"
\* the same for a pair on a mapping slot whose mapping is the member
C19_WitnessSlot ==
  /\ pc = "done"
  /\ \E i \in DOMAIN buckets : \E v, grp \in BucketVarsOf(buckets[i]) :
        /\ IsMappingSlotVar(v) /\ IsMultiVarGroup(grp) /\ BaseOrSelf(v) \in MembersOf(grp)
        /\ PairsUnder(buckets[i], v) /= {}
        /\ PairsUnder(buckets[i], v) \subseteq PairsUnder(buckets[i], grp)

(***************************************************************************)
(* C20: no analysis state survives across runs: at the start of every      *)
(* detector run the alias registry and the slot-layout cache are empty and *)
(* the admin-only set is empty or rebuilt before it is used, so a second   *)
(* run in the same process starts from the state the first started from    *)
(* and its alias registry holds only keys created during that run.         *)
(***************************************************************************)
\* the keys a run on the unit creates in an empty registry
KeysOfRun == DOMAIN build_sdg(cu, PROMOTE_MAPPING_BASE(env), EmptyMap).reg
C20_NoStateAcrossRuns ==
  /\ pc = "build" => ALIAS_REG = EmptyMap /\ LAYOUT_CACHE = {}
  /\ pc \in {"prune", "pairs", "done"} => ADMIN_ONLY = {f \in Range(sdg.fn_lookup) : is_admin_only(cu.fns[f])}
  /\ pc /= "build" => DOMAIN ALIAS_REG \subseteq KeysOfRun
\* the part of it that holds: the admin-only set is rebuilt by every run
AdminOnlyRebuilt ==
  pc \in {"prune", "pairs", "done"} => ADMIN_ONLY = {f \in Range(sdg.fn_lookup) : is_admin_only(cu.fns[f])}

(***************************************************************************)
(* C21: the analysis is deterministic: for a fixed compilation unit and    *)
(* configuration the set of emitted findings (class, variables,            *)
(* transaction set, pattern labels, shape flags) is the same whatever      *)
(* order the sets are iterated in.                                         *)
(***************************************************************************)
FindingCore(f) ==
  [pattern |-> f.pattern,
   vars |-> {<<f.vars[i].kind, f.vars[i].name, f.vars[i].members, f.vars[i].key>> : i \in DOMAIN f.vars},
   tx_set |-> f.tx_set, op_patterns |-> f.op_patterns, shape |-> f.shape]
FindingCores(fs) == {FindingCore(fs[i]) : i \in DOMAIN fs}
C21_SameFindingsInEveryOrder ==
  (pc = "done" /\ runs = 2) => FindingCores(json_findings) = FindingCores(earlier_findings)

(***************************************************************************)
(* C22: budget configuration never aborts the run: an unparseable          *)
(* DIVERGENCE_BUDGET value is reported and replaced by the default 1000,   *)
(* the words inf/infinite/unlimited/unbounded and any negative integer     *)
(* give an unbounded budget, a non-negative integer n gives budget n, and  *)
(* _parse_divergence_budget raises for no input string.                    *)
(***************************************************************************)
\* the text without the blanks around it and in lower case
Trimmed(text) ==
  LET inner == {i \in DOMAIN text : text[i] /= " "}
      first == CHOOSE i \in inner : \A j \in inner : i <= j
      last == CHOOSE i \in inner : \A j \in inner : j <= i
  IN  IF inner = {} THEN <<>> ELSE [i \in 1..(last - first + 1) |-> LowerChar(text[first + i - 1])]
\* the texts that write the integer n: a sign or none, then the decimal
\* digits of the magnitude, underscores between digits and leading zeros aside
MagnitudeOf(digits) ==
  LET ds == [k \in 1..Cardinality({i \in DOMAIN digits : digits[i] /= "_"}) |->
               digits[CHOOSE i \in DOMAIN digits :
                         digits[i] /= "_" /\ Cardinality({j \in 1..i : digits[j] /= "_"}) = k]]
      Power10[e \in 0..Len(ds)] == IF e = 0 THEN 1 ELSE 10 * Power10[e - 1]
      Sum[k \in 0..Len(ds)] == IF k = 0 THEN 0 ELSE Sum[k - 1] + DigitValue(ds[k]) * Power10[Len(ds) - k]
  IN  Sum[Len(ds)]
IsDecimal(digits) ==
  /\ digits /= <<>>
  /\ \A i \in DOMAIN digits : digits[i] \in Digits \/ (digits[i] = "_" /\ 1 < i /\ i < Len(digits) /\ digits[i - 1] \in Digits /\ digits[i + 1] \in Digits)
WritesInteger(t) == IsDecimal(t) \/ (t /= <<>> /\ t[1] \in {"+", "-"} /\ IsDecimal(Tail(t)))
IntegerWritten(t) ==
  IF t[1] = "-" THEN 0 - MagnitudeOf(Tail(t)) ELSE IF t[1] = "+" THEN MagnitudeOf(Tail(t)) ELSE MagnitudeOf(t)
BudgetAsStated(text, out) ==
  LET t == Trimmed(IF text = UnsetText THEN DefaultBudgetText ELSE text)
  IN  /\ ~out.raised
      /\ IF t \in UnboundedWords THEN out.budget = NoBudget /\ ~out.reported
         ELSE IF ~WritesInteger(t) THEN out.budget = 1000 /\ out.reported
         ELSE IF IntegerWritten(t) < 0 THEN out.budget = NoBudget /\ ~out.reported
         ELSE out.budget = IntegerWritten(t) /\ ~out.reported
C22_BudgetParsingNeverAborts ==
  budget_parse.parsed => BudgetAsStated(budget_parse.text, budget_parse)
\* an unparseable text was parsed: the default stands in and the error was reported
C22_Witness ==
  /\ budget_parse.parsed /\ budget_parse.text = <<"1", ".", "7">>
  /\ budget_parse.reported /\ budget_parse.budget = 1000 /\ ~budget_parse.raised
\* a negative integer and a word for unbounded were parsed
C22_WitnessNegative == budget_parse.parsed /\ budget_parse.text = <<" ", "-", "7">> /\ budget_parse.budget = NoBudget
C22_WitnessWord == budget_parse.parsed /\ budget_parse.text = <<"I", "n", "f">> /\ budget_parse.budget = NoBudget
C22_WitnessNumber == budget_parse.parsed /\ budget_parse.text = <<"1", "_", "0", "0", "0">> /\ budget_parse.budget = 1000 /\ ~budget_parse.reported

\* ---------------------------------------------------------------------------
\* the call sites of the unit whose callee is statically resolved: the
\* function, the node and the callee of each
ResolvedCallSites ==
  {s \in UNION {UNION {{<<f, i, cu.fns[f].nodes[i].irs[k].callee>> :
                          k \in {j \in DOMAIN cu.fns[f].nodes[i].irs : IsCall(cu.fns[f].nodes[i].irs[j])}} :
                       i \in DOMAIN cu.fns[f].nodes} : f \in Range(cu.order)} :
     HasEntryPoint(cu, s[3])}

\* the return blocks of a function or, if it has none, its blocks without
\* successors
ExitBlocksOf(callee) ==
  LET cnodes == cu.fns[callee].nodes
      returns == {i \in DOMAIN cnodes : cnodes[i].type = "RETURN"}
  IN  {<<callee, i>> : i \in IF returns /= {} THEN returns ELSE {j \in DOMAIN cnodes : cnodes[j].sons = {}}}

\* the successors of a call site inside its own function
OwnSuccessors(f, i) == {<<f, s>> : s \in cu.fns[f].nodes[i].sons}

\* the blocks in the order build_sdg hands them to add_block
RECURSIVE BlocksInOrder(_)
BlocksInOrder(order) ==
  IF order = <<>> THEN <<>>
  ELSE [i \in DOMAIN cu.fns[Head(order)].nodes |-> <<Head(order), i>>] \o BlocksInOrder(Tail(order))

\* the blocks add_block processed, those it did not return from at once
\* because an earlier call site had already put them into the graph
RECURSIVE ProcessedAmong(_, _, _)
ProcessedAmong(st, todo, done) ==
  IF todo = <<>> THEN done
  ELSE LET b == Head(todo)
       IN  ProcessedAmong(add_block(cu, PROMOTE_MAPPING_BASE(env), st, cu.fns[b[1]], b[2]), Tail(todo),
                          IF b \in DOMAIN st.sdg.blocks THEN done ELSE done \cup {b})

ProcessedCallSites ==
  {s \in ResolvedCallSites :
     <<s[1], s[2]>> \in ProcessedAmong([sdg |-> NewSDG, reg |-> EmptyMap], BlocksInOrder(cu.order), {})}

C23_WitnessSelf ==
  /\ pc = "prepare"
  /\ \E s \in ProcessedCallSites :
        /\ <<s[1], s[2]>> \in ExitBlocksOf(s[3])
        /\ <<s[1], s[2]>> \notin sdg.blocks[<<s[1], s[2]>>].succ

\* ---------------------------------------------------------------------------
\* the (write block, read block) combinations stale_read_pairs goes through
\* for the variables of the pruned graph
Candidates ==
  {c \in UNION {StrippedWrites(cu, sdg, v) \X GetSet(sdg.var_reads, v) \X {v} : v \in DOMAIN sdg.var_writes} : TRUE}

\* C24: filter (b) discards a (write block, read block) combination of a
\* variable exactly when the two are the same block, so a write block that also
\* reads the variable still pairs with the other blocks that read it.
C24_SameBlockOnly ==
  pc = "pairs" =>
    \A c \in Candidates : SameBlockHasBoth(sdg, c[3], c[1], c[2]) <=> c[1] = c[2]

\* ---------------------------------------------------------------------------
\* the labels of the op_patterns of the findings emitted so far
LabelsEmitted == UNION {json_findings[i].op_patterns : i \in DOMAIN json_findings}

C25_WitnessSameFunction == pc = "done" /\ "stale_read" \in LabelsEmitted /\ "destructive_write" \in LabelsEmitted
C25_WitnessReentrant == pc = "done" /\ "reentrant_destructive_write" \in LabelsEmitted

\* ---------------------------------------------------------------------------
\* the functions f calls, directly or through other functions of the unit
RECURSIVE CalledThrough(_, _)
CalledThrough(fs, n) ==
  IF n = 0 THEN fs
  ELSE CalledThrough(fs \cup UNION {CalleesOf(cu.fns[g]) : g \in fs \cap DOMAIN cu.fns}, n - 1)

CallsTransitively(f, g) == g \in CalledThrough(CalleesOf(cu.fns[f]), Cardinality(DOMAIN cu.fns))

CallOneAnother(f, g) == CallsTransitively(f, g) /\ CallsTransitively(g, f)

\* the yielded pairs behind the shape entry of a transaction set and variable
PairsBehind(key) ==
  {p \in yielded_pairs : {entry_of[p[1]], entry_of[p[2]]} = key[1] /\ var_key(p[3]) = key[2]}

\* C26: a pair carries a reentrant label, and a shape its reentrant flag, only
\* if writer and reader are owned by different entries and their functions
\* call one another in both directions, directly or transitively.
C26_ReentrantOnlyIfMutual ==
  pc = "done" =>
    /\ \A p \in BucketPairs :
         p[3] \in {"reentrant_stale_read", "reentrant_destructive_write"} =>
           entry_of[p[1]] /= entry_of[p[2]] /\ CallOneAnother(p[1][1], p[2][1])
    /\ \A key \in DOMAIN shapes_by_key :
         shapes_by_key[key].reentrant =>
           \E p \in PairsBehind(key) : entry_of[p[1]] /= entry_of[p[2]] /\ CallOneAnother(p[1][1], p[2][1])

\* ---------------------------------------------------------------------------
\* the blocks a sink search has visited: those its own loop took off the
\* queue and those its calls of reachable_without_overwrite took off theirs
VisitedBySearch == DOMAIN walk.expanded \cup Range(walk.inner)

\* C27: under a finite budget n >= 1 a sink search of either policy visits
\* at most n blocks, those of its overwrite-free reachability checks
\* included (counted once each, however often they are visited), and a search
\* cut off by the budget answers false.
C27_BudgetBoundsAllVisits ==
  (walk.kind = "sink" /\ DIVERGENCE_BUDGET(env) \notin {NoBudget, 0}) =>
    /\ Cardinality(VisitedBySearch) <= DIVERGENCE_BUDGET(env)
    /\ (walk.result = "running" /\ walk.steps >= DIVERGENCE_BUDGET(env)) => sink_step(env, cu, sdg, succ_order, walk).result = "false"

\* C27 as amended: under a finite budget n >= 1 the breadth-first loop of a
\* sink search of either policy takes at most n blocks off its queue, the
\* blocks its overwrite-free reachability checks visit not counted, and a
\* search cut off by the budget answers false.
C27_BudgetBoundsOuterSearch ==
  (walk.kind = "sink" /\ DIVERGENCE_BUDGET(env) \notin {NoBudget, 0}) =>
    /\ walk.steps <= DIVERGENCE_BUDGET(env)
    /\ Cardinality(DOMAIN walk.expanded) <= DIVERGENCE_BUDGET(env)
    /\ (walk.result = "running" /\ walk.steps >= DIVERGENCE_BUDGET(env)) => sink_step(env, cu, sdg, succ_order, walk).result = "false"

\* a search the budget cut off with blocks left on its queue, answering false
C27_Witness ==
  /\ walk.kind = "sink"
  /\ walk.result = "false"
  /\ walk.q /= <<>>
  /\ walk.steps = DIVERGENCE_BUDGET(env)
  /\ walk.steps >= 1

\* a search within its budget whose reachability checks visited a block the
\* search itself had not taken off its queue
C27_WitnessInner ==
  /\ walk.kind = "sink"
  /\ DIVERGENCE_BUDGET(env) \notin {NoBudget, 0}
  /\ walk.steps <= DIVERGENCE_BUDGET(env)
  /\ Range(walk.inner) \ DOMAIN walk.expanded /= {}

\* ---------------------------------------------------------------------------
\* the graph build_sdg makes of the unit when it visits the functions in the
\* order o
SdgInOrder(o) == build_sdg([cu EXCEPT !.order = o], PROMOTE_MAPPING_BASE(env), EmptyMap).sdg

\* what a node reads and writes directly
DirectReads(node) == StateVarsOf(node.variables_read) \cup SlotsOf(node.variables_read)
DirectWrites(node) == StateVarsOf(node.variables_written) \cup SlotsOf(node.variables_written) \cup LvalueSlots(node.irs)

\* the block of node i of function f holds what the node reads and writes and
\* the node's successors, and is listed under each variable
BlockHoldsNode(g, f, i) ==
  LET b == <<f, i>>
      node == cu.fns[f].nodes[i]
  IN  /\ b \in DOMAIN g.blocks
      /\ DirectReads(node) \subseteq g.blocks[b].reads
      /\ DirectWrites(node) \subseteq g.blocks[b].writes
      /\ {<<f, s>> : s \in node.sons} \subseteq g.blocks[b].succ
      /\ \A v \in DirectReads(node) : b \in GetSet(g.var_reads, v)
      /\ \A v \in DirectWrites(node) : b \in GetSet(g.var_writes, v)

\* C28: once build_sdg has added every node of every function, the blocks
\* and the read and write indexes are the same for every order of visiting
\* the functions, and every block holds what its node reads and writes and the
\* node's own successors, the entry and return blocks of a function whose
\* caller was added first included.
C28_SdgOrderIndependent ==
  pc = "prepare" =>
    /\ \A o \in Orderings(Range(cu.order)) :
         /\ SdgInOrder(o).blocks = sdg.blocks
         /\ SdgInOrder(o).var_reads = sdg.var_reads
         /\ SdgInOrder(o).var_writes = sdg.var_writes
    /\ \A f \in Range(cu.order) : \A i \in DOMAIN cu.fns[f].nodes : BlockHoldsNode(sdg, f, i)

\* ---------------------------------------------------------------------------
\* the queries of the two policies on the graph with its groups, before the
\* pruning: every variable
\* the graph knows, every read block of it, every budget
QueryVars == DOMAIN sdg.var_reads \cup DOMAIN sdg.var_writes
QueryBudgets == {NoBudget, 0, 1, 2, 3}

\* C29: whatever the graph, the variable (concrete variable, mapping slot,
\* external proxy or group), the read block and the budget, a query the
\* same-variable policy answers with true is answered with true by the
\* value-influence policy.
C29_ValuePolicyAtLeastAsPermissive ==
  pc = "prune" =>
    \A var \in QueryVars : \A b \in GetSet(sdg.var_reads, var) : \A n \in QueryBudgets :
      forward_slice_hits_sink_from(cu, sdg, succ_order, var, b, n)
        => value_influence_hits_sensitive_sink(cu, sdg, succ_order, var, b, n)

\* the same for the variables that are no groups
C29_ValuePolicyAtLeastAsPermissiveOffGroups ==
  pc = "prune" =>
    \A var \in {v \in QueryVars : ~IsMultiVarGroup(v)} : \A b \in GetSet(sdg.var_reads, var) : \A n \in QueryBudgets :
      forward_slice_hits_sink_from(cu, sdg, succ_order, var, b, n)
        => value_influence_hits_sensitive_sink(cu, sdg, succ_order, var, b, n)

\* ---------------------------------------------------------------------------
\* the owners of the writer and the reader block of a bucketed pair
OwnersOf(p) == {entry_of[p[1]], entry_of[p[2]]}

\* the pairs of one bucket
PairsIn(bucket) == UNION {Range(bucket.vars[j].pairs) : j \in DOMAIN bucket.vars}

\* C30: a finished run has emitted exactly one finding for every transaction
\* set with a surviving pair: no bucket was dropped as a duplicate, under the
\* coarse or the strict key, no two findings share a transaction set, and the
\* transaction set of a finding has 1 or 2 entries, the owners of the writer
\* and reader blocks of its pairs.
C30_OneFindingPerTransactionSet ==
  pc = "done" =>
    /\ Len(json_findings) = Len(buckets)
    /\ \A i \in DOMAIN json_findings :
         /\ json_findings[i].tx_set = buckets[i].tx_id
         /\ Cardinality(json_findings[i].tx_set) \in {1, 2}
         /\ PairsIn(buckets[i]) /= {}
         /\ \A p \in PairsIn(buckets[i]) : OwnersOf(p) = json_findings[i].tx_set
    /\ \A i, j \in DOMAIN json_findings : i /= j => json_findings[i].tx_set /= json_findings[j].tx_set
    /\ {json_findings[i].tx_set : i \in DOMAIN json_findings} = {OwnersOf(p) : p \in BucketPairs}

\* a run under the coarse key with two findings, one of them for a bucket of
\* several pairs
C30_Witness ==
  /\ pc = "done"
  /\ COARSE_DEDUP(env)
  /\ Len(json_findings) >= 2
  /\ \E i \in DOMAIN buckets : Cardinality(PairsIn(buckets[i])) >= 2

\* the same under the strict key
C30_WitnessStrict ==
  /\ pc = "done"
  /\ ~COARSE_DEDUP(env)
  /\ Len(json_findings) >= 2
  /\ \E i \in DOMAIN buckets : Cardinality(PairsIn(buckets[i])) >= 2

\* findings whose transaction sets have one and two entries
C30_WitnessSizes ==
  /\ pc = "done"
  /\ \E i, j \in DOMAIN json_findings :
        Cardinality(json_findings[i].tx_set) = 1 /\ Cardinality(json_findings[j].tx_set) = 2
====
